---- MODULE Spec2Model ----
(***************************************************************************)
(* Acquisition pipeline of j3s-music-upload: the upload, YouTube and       *)
(* Spotify handlers, the job log they write through the Database, and the  *)
(* temp/music directories they share.                                      *)
(*                                                                         *)
(* Strings that the code inspects character by character (URLs, file      *)
(* names) are sequences of one-character strings.  Paths are sequences of  *)
(* components.                                                             *)
(***************************************************************************)
EXTENDS Integers, Sequences, FiniteSets, TLC

VARIABLES
    config,        \* AppState.config: the static configuration
    settings,      \* the config table of the database (runtime overrides)
    library_path,  \* users.library_path, per user
    dirs,          \* directories that exist on disk
    files,         \* plain files on disk: records [dir, name, by]
    upload_logs,   \* the upload_logs table, row i has id i
    req,           \* one handler invocation per request slot
    progress_store, \* ProgressStore: session id -> the channel of its Sender
    channels,      \* the mpsc channels made by register_session
    progress_call, \* the last call into progress.rs and what it did
    lock,          \* the RwLock around the ProgressStore map: who holds a guard
    ensure,        \* the calls of ensure_directory_exists in progress, per caller
    ensured,       \* the paths a call of ensure_directory_exists returned Ok for
    argv,          \* the last argument vector built for a fetch tool
    users,         \* the users table of the database: id -> row
    admin_call     \* the last call of a handler of admin.rs and its answer

\* the variables of the handlers, of progress.rs, of ensure_directory_exists
\* (next to dirs) and of the argument builders
progress_vars == <<progress_store, channels, progress_call, lock>>
ensure_vars == <<ensure, ensured>>
admin_vars == <<users, admin_call>>
unit_vars == <<progress_vars, ensure_vars, argv, admin_vars>>
handler_vars == <<config, settings, library_path, dirs, files, upload_logs, req>>

vars == <<config, settings, library_path, dirs, files, upload_logs, req,
          progress_store, channels, progress_call, lock, ensure, ensured, argv,
          users, admin_call>>

\* Option<T>: None, or Some(v)
None == <<>>
Some(v) == <<v>>

Reqs  == {"r1", "r2"}
Users == {"u1", "u2"}

Sessions == {"s1", "s2"}

\* RwLock::new(..): no read guard and no write guard is held
LockFree == [readers |-> {}, writer |-> None]

\* no session is registered and no call into progress.rs has been made
ProgressIdle ==
    /\ lock = LockFree
    /\ progress_store = [s \in Sessions |-> None]
    /\ channels = <<>>
    /\ progress_call = [n |-> 0, op |-> "none", session_id |-> "none",
                        message |-> "none", outcome |-> "none",
                        sent |-> [s \in Sessions |-> <<>>]]

\* no call of ensure_directory_exists is in progress
IdleEnsure ==
    [pc |-> "idle", path |-> <<>>, n |-> 0, again |-> FALSE, raced |-> FALSE,
     created |-> {}, result |-> "none"]

EnsureIdle ==
    /\ ensure = [r \in Reqs |-> IdleEnsure]
    /\ ensured = {}

\* no argument vector has been built
ArgvIdle == argv = [tool |-> "none", cfg |-> <<>>, temp_dir |-> <<>>, url |-> <<>>,
                    args |-> None]

\* the string of n characters c
Repeat(c, n) == [i \in 1..n |-> c]

\* hash_password: the stored form of a password is not the password
hash_password(password) == [argon2 |-> password]

\* the users table with the administrator main.rs creates at the first
\* start ("admin", password "admin") and one user without admin rights; no
\* call into admin.rs made yet
AdminIdle ==
    /\ users = [id \in Users |->
                    IF id = "u1"
                    THEN [username |-> <<"a", "d", "m", "i", "n">>,
                          password_hash |-> hash_password(<<"a", "d", "m", "i", "n">>),
                          is_admin |-> TRUE]
                    ELSE [username |-> <<"e", "v", "e">>,
                          password_hash |-> hash_password(Repeat("e", 8)),
                          is_admin |-> FALSE]]
    /\ admin_call = [op |-> "none", caller |-> "none", is_admin |-> FALSE,
                     code |-> "none", logs |-> None]

UnitsIdle == ProgressIdle /\ EnsureIdle /\ ArgvIdle /\ AdminIdle

\* ------------------------------------------------------------------ bounds
MaxFetch == 2      \* most files one run of a fetch tool writes
MaxParts == 2      \* most multipart fields one upload request carries
PadLong == 2        \* extra characters tried beyond a URL length limit

\* ------------------------------------------------------------ str helpers
\* str::starts_with
starts_with(s, p) == Len(s) >= Len(p) /\ SubSeq(s, 1, Len(p)) = p

\* str::contains with a pattern of one or more characters
contains(s, p) ==
    \E i \in 1..(Len(s) - Len(p) + 1) : SubSeq(s, i, i + Len(p) - 1) = p

is_whitespace(c) == c \in {" ", "\n", "\t"}

RECURSIVE trim_start(_)
trim_start(s) ==
    IF s # <<>> /\ is_whitespace(Head(s)) THEN trim_start(Tail(s)) ELSE s

RECURSIVE trim_end(_)
trim_end(s) ==
    IF s # <<>> /\ is_whitespace(s[Len(s)])
    THEN trim_end(SubSeq(s, 1, Len(s) - 1)) ELSE s

\* str::trim
trim(s) == trim_end(trim_start(s))

\* ---------------------------------------------------------- URL validation
YT_WWW == <<"h","t","t","p","s",":","/","/","w","w","w",".","y","o","u","t","u","b","e",".","c","o","m","/","w","a","t","c","h","?","v","=">>
YT_BARE == <<"h","t","t","p","s",":","/","/","y","o","u","t","u","b","e",".","c","o","m","/","w","a","t","c","h","?","v","=">>
YT_SHORT == <<"h","t","t","p","s",":","/","/","y","o","u","t","u",".","b","e","/">>
YT_MOBILE == <<"h","t","t","p","s",":","/","/","m",".","y","o","u","t","u","b","e",".","c","o","m","/","w","a","t","c","h","?","v","=">>
SP_TRACK == <<"h","t","t","p","s",":","/","/","o","p","e","n",".","s","p","o","t","i","f","y",".","c","o","m","/","t","r","a","c","k","/">>
SP_ALBUM == <<"h","t","t","p","s",":","/","/","o","p","e","n",".","s","p","o","t","i","f","y",".","c","o","m","/","a","l","b","u","m","/">>
SP_PLAYLIST == <<"h","t","t","p","s",":","/","/","o","p","e","n",".","s","p","o","t","i","f","y",".","c","o","m","/","p","l","a","y","l","i","s","t","/">>
SP_ARTIST == <<"h","t","t","p","s",":","/","/","o","p","e","n",".","s","p","o","t","i","f","y",".","c","o","m","/","a","r","t","i","s","t","/">>

YoutubeMaxLen == 200
SpotifyMaxLen == 300

\* the character U+0060 (grave accent), which a TLA+ string cannot hold
Backtick == "GRAVE"

\* the metacharacter tests shared by both handlers
no_shell_metachars(url) ==
    /\ ~contains(url, <<";">>)
    /\ ~contains(url, <<"|">>)
    /\ ~contains(url, <<Backtick>>)
    /\ ~contains(url, <<"$">>)
    /\ ~contains(url, <<"&","&">>)
    /\ ~contains(url, <<"|","|">>)

\* the length test with >= in place of >
youtube_url_ok_off_by_one(raw) ==
    LET url == trim(raw)
        is_valid ==
            /\ \/ starts_with(url, YT_WWW)
               \/ starts_with(url, YT_BARE)
               \/ starts_with(url, YT_SHORT)
               \/ starts_with(url, YT_MOBILE)
            /\ no_shell_metachars(url)
    IN  ~(~is_valid \/ Len(url) >= YoutubeMaxLen)

\* download_youtube: is_valid and the length test, on the trimmed url
youtube_url_ok(raw) ==
    LET url == trim(raw)
        is_valid ==
            /\ \/ starts_with(url, YT_WWW)
               \/ starts_with(url, YT_BARE)
               \/ starts_with(url, YT_SHORT)
               \/ starts_with(url, YT_MOBILE)
            /\ no_shell_metachars(url)
    IN  ~(~is_valid \/ Len(url) > YoutubeMaxLen)

\* download_spotify: is_valid and the length test, on the trimmed url
spotify_url_ok(raw) ==
    LET url == trim(raw)
        is_valid ==
            /\ \/ starts_with(url, SP_TRACK)
               \/ starts_with(url, SP_ALBUM)
               \/ starts_with(url, SP_PLAYLIST)
               \/ starts_with(url, SP_ARTIST)
            /\ no_shell_metachars(url)
    IN  ~(~is_valid \/ Len(url) > SpotifyMaxLen)

\* validation reduced to the length test
url_ok_length_only(kind, raw) ==
    Len(trim(raw)) <= (IF kind = "youtube" THEN YoutubeMaxLen ELSE SpotifyMaxLen)

\* the validation block of the handler of the given kind
url_ok(kind, raw) ==
    IF kind = "youtube" THEN youtube_url_ok(raw) ELSE spotify_url_ok(raw)

\* ------------------------------------------------------------------ paths
MusicDir == <<"music">>            \* config.paths.music_dir
TempDir  == <<"music_upload">>     \* config.paths.temp_dir

\* PathBuf::from, then comparison by components: empty components (doubled
\* or trailing separators) and "." components do not count.
PathBufFrom(p) == SelectSeq(p, LAMBDA c : c # "" /\ c # ".")

\* the override compared as a string instead of as a path
get_user_music_dir_string_eq(lp) ==
    IF lp = None THEN MusicDir
    ELSE IF lp[1] = MusicDir THEN Append(MusicDir, "default")
    ELSE PathBufFrom(lp[1])

\* the "default" subdirectory used for users without an override as well
get_user_music_dir_default_always(lp) ==
    IF lp = None THEN Append(MusicDir, "default")
    ELSE IF PathBufFrom(lp[1]) = MusicDir THEN Append(MusicDir, "default")
    ELSE PathBufFrom(lp[1])

\* paths.rs get_user_music_dir
get_user_music_dir(lp) ==
    IF lp = None THEN MusicDir
    ELSE IF PathBufFrom(lp[1]) = MusicDir THEN Append(MusicDir, "default")
    ELSE PathBufFrom(lp[1])

\* the override ignored: always the global temp_dir
get_user_temp_dir_global(lp) == TempDir

\* paths.rs get_user_temp_dir
get_user_temp_dir(lp) ==
    IF lp = None THEN TempDir
    ELSE IF PathBufFrom(lp[1]) = MusicDir THEN TempDir
    ELSE Append(PathBufFrom(lp[1]), "tmp")

\* ------------------------------------------------------- upload validation
\* the components of a path string between its '/' separators
RECURSIVE split_slash(_, _)
split_slash(s, cur) ==
    IF s = <<>> THEN <<cur>>
    ELSE IF Head(s) = "/" THEN <<cur>> \o split_slash(Tail(s), <<>>)
    ELSE split_slash(Tail(s), Append(cur, Head(s)))

\* Path::new(name).file_name(): the last component, if it is a normal one.
\* Empty components and "." are normalised away; a path that ends in ".."
\* (or has no component at all) has no file name.
path_file_name(name) ==
    LET kept == SelectSeq(split_slash(name, <<>>),
                          LAMBDA c : c # <<>> /\ c # <<".">>)
    IN  IF kept = <<>> THEN None
        ELSE IF kept[Len(kept)] = <<".", ".">> THEN None
        ELSE Some(kept[Len(kept)])

\* index of the last '.' of a file name, 0 if there is none
RECURSIVE last_dot(_, _)
last_dot(s, i) ==
    IF i = 0 THEN 0 ELSE IF s[i] = "." THEN i ELSE last_dot(s, i - 1)

\* the extension with unwrap_or("mp3") in place of unwrap_or("")
path_extension_default_mp3(sanitized) ==
    LET d == last_dot(sanitized, Len(sanitized))
    IN  IF d <= 1 THEN <<"m", "p", "3">> ELSE SubSeq(sanitized, d + 1, Len(sanitized))

\* Path::new(sanitized).extension().and_then(to_str).unwrap_or("")
path_extension(sanitized) ==
    LET d == last_dot(sanitized, Len(sanitized))
    IN  IF d <= 1 THEN <<>> ELSE SubSeq(sanitized, d + 1, Len(sanitized))

\* the "suspicious characters" test on the sanitized name
is_suspicious(sanitized) ==
    \/ contains(sanitized, <<".", ".">>)
    \/ contains(sanitized, <<"/">>)
    \/ contains(sanitized, <<"\\">>)

\* config.upload.allowed_extensions
allowed_extensions == {<<"m", "p", "3">>, <<"f", "l", "a", "c">>}

\* config.upload.max_file_size_mb and Config::max_file_size_bytes
max_file_size_mb == 500
\* the limit counted in decimal megabytes
max_file_size_bytes_decimal == max_file_size_mb * 1000 * 1000
max_file_size_bytes == max_file_size_mb * 1024 * 1024

\* --------------------------------------------------------------- job store
\* A row as INSERT INTO upload_logs (user_id, upload_type, source) leaves it.
NewRow(user_id, upload_type, source) ==
    [user_id |-> user_id, upload_type |-> upload_type, source |-> source,
     status |-> "pending", file_count |-> 0,
     error_message |-> None, completed_at |-> None]

\* an UPDATE without its WHERE clause
row_matches_any(i, id) == TRUE

\* which rows UPDATE ... WHERE id = ? touches
row_matches(i, id) == i = id

\* the UPDATE with completed_at stamped for "completed" only
update_upload_log_status_unstamped_failure(logs, id, status, file_count, error_message) ==
    [i \in DOMAIN logs |->
        IF row_matches(i, id)
        THEN [logs[i] EXCEPT
                !.status = status,
                !.file_count = IF file_count # None THEN file_count[1] ELSE @,
                !.error_message =
                    IF error_message # None THEN error_message ELSE @,
                !.completed_at =
                    IF status = "completed"
                    THEN Some("CURRENT_TIMESTAMP") ELSE @]
        ELSE logs[i]]

\* Database::update_upload_log_status: the table after the UPDATE
update_upload_log_status(logs, id, status, file_count, error_message) ==
    [i \in DOMAIN logs |->
        IF row_matches(i, id)
        THEN [logs[i] EXCEPT
                !.status = status,
                !.file_count = IF file_count # None THEN file_count[1] ELSE @,
                !.error_message =
                    IF error_message # None THEN error_message ELSE @,
                !.completed_at =
                    IF status = "completed" \/ status = "failed"
                    THEN Some("CURRENT_TIMESTAMP") ELSE @]
        ELSE logs[i]]

\* effective "ferric enabled" flag: the config table's value if present,
\* else the static default (also the handlers' unwrap_or on a store error)
get_ferric_enabled(cfg, st) ==
    IF st # None THEN st[1] = "true" ELSE cfg.ferric_enabled

\* ------------------------------------------------------------- filesystem
in_dir(fs, d) == {f \in fs : f.dir = d}

names_in(fs, d) == {f.name : f \in in_dir(fs, d)}

\* File::create + write_all, or a tool writing a file: replaces a file of
\* the same name
write_file(fs, d, n, by) ==
    {f \in fs : ~(f.dir = d /\ f.name = n)} \cup {[dir |-> d, name |-> n, by |-> by]}

write_files(fs, d, ns, by) ==
    {f \in fs : ~(f.dir = d /\ f.name \in ns)}
        \cup {[dir |-> d, name |-> n, by |-> by] : n \in ns}

\* fs::remove_file
remove_file(fs, d, n) == {f \in fs : ~(f.dir = d /\ f.name = n)}

\* fs::copy(src_dir/n, dst_dir/n): the copy carries the content of the source
copy_file(fs, src, dst, n) ==
    LET f == CHOOSE g \in fs : g.dir = src /\ g.name = n
    IN  write_file(fs, dst, n, f.by)

\* the cleanup loops of process_temp_dir: every plain file of temp_dir goes
cleanup_temp_dir(fs, temp_dir) == {f \in fs : f.dir # temp_dir}

\* the scan after a successful fetch: the plain files of temp_dir
count_files(fs, temp_dir) == Cardinality(in_dir(fs, temp_dir))

\* Ferric run on (temp_dir, music_dir): every input file is deposited in the
\* output directory; whether the tool also removes its inputs is its own
\* business (consume).
ferric_run(fs, temp_dir, music_dir, consume) ==
    LET input == in_dir(fs, temp_dir)
        kept  == IF consume THEN fs \ input ELSE fs
    IN  {f \in kept : ~(f.dir = music_dir /\ f.name \in {g.name : g \in input})}
            \cup {[dir |-> music_dir, name |-> g.name, by |-> g.by] : g \in input}

\* ------------------------------------------------------------ tool output
Digit == <<"1", "2", "3", "4">>

\* the title of the media behind a URL: the same URL gives the same files
title_of(url) == LET u == trim(url) IN u[Len(u)]

\* the file a fetch tool writes for item i of a source titled t
fetched_name(t, i) == <<t, Digit[i], ".", "m", "p", "3">>

fetched_names(t, n) == {fetched_name(t, i) : i \in 1..n}

\* ---------------------------------------------------------------- requests
\* a formatted message: its fixed text, the strings and the numbers put in it
MsgN(text, detail, nums) == [text |-> text, detail |-> detail, nums |-> nums]
Msg(text, detail) == MsgN(text, detail, <<>>)

IdleReq ==
    [pc |-> "idle", kind |-> "none", user |-> "none", url |-> <<>>,
     music_dir |-> <<>>, temp_dir |-> <<>>, url_ok |-> None,
     log_id |-> 0, file_count |-> 0, uploaded_files |-> <<>>,
     todo |-> <<>>, fields |-> 0, part |-> None, sanitized_name |-> <<>>,
     err |-> None, resp |-> None,
     fetched |-> None, wrote |-> {}, spawned |-> {}, tool_url |-> None,
     cause |-> "none",
     unrecorded |-> FALSE, progress_sent |-> 0,
     session_id |-> None, progress_log |-> <<>>, unregister |-> "none",
     data_len |-> None]

\* Err(...) / Ok(Json(...)) returned to the caller
Respond(q, code, success, error) ==
    [q EXCEPT !.pc = "done",
              !.resp = Some([code |-> code, success |-> success,
                             error |-> error, log_id |-> q.log_id,
                             file_count |-> q.file_count])]

\* a failure recorded with Some(0) whatever was counted
Fail_count_zero(q, code, count, msg) ==
    [q EXCEPT !.pc = "set_failed",
              !.err = Some([code |-> code, count |-> 0, msg |-> msg])]

\* a failure that the handler records into the job row before it returns
Fail(q, code, count, msg) ==
    [q EXCEPT !.pc = "set_failed",
              !.err = Some([code |-> code, count |-> count, msg |-> msg])]

\* the failed write with ? in place of .ok(): its error replaces the answer
settle_escalating(r, qn, rec_ok) ==
    IF qn.pc = "set_failed"
    THEN LET e == qn.err[1] IN
         /\ upload_logs' =
                IF rec_ok
                THEN update_upload_log_status(
                        upload_logs, qn.log_id, "failed", Some(e.count), Some(e.msg))
                ELSE upload_logs
         /\ req' = [req EXCEPT ![r] =
                IF rec_ok THEN Respond(qn, e.code, FALSE, Some(e.msg))
                ELSE Respond([qn EXCEPT !.unrecorded = TRUE], "INTERNAL_SERVER_ERROR",
                             FALSE, Some(Msg("Failed to update log", <<>>)))]
    ELSE /\ rec_ok
         /\ upload_logs' = upload_logs
         /\ req' = [req EXCEPT ![r] = qn]

\* The end of a handler step that leaves the request as qn.  On a failure:
\* db.update_upload_log_status(log_id, "failed", Some(count), Some(msg))
\* .await.ok(), then the error response; rec_ok is whether that write
\* succeeds.
settle(r, qn, rec_ok) ==
    IF qn.pc = "set_failed"
    THEN LET e == qn.err[1] IN
         /\ upload_logs' =
                IF rec_ok
                THEN update_upload_log_status(
                        upload_logs, qn.log_id, "failed", Some(e.count), Some(e.msg))
                ELSE upload_logs
         /\ req' = [req EXCEPT ![r] =
                Respond([qn EXCEPT !.unrecorded = ~rec_ok], e.code, FALSE, Some(e.msg))]
    ELSE /\ rec_ok
         /\ upload_logs' = upload_logs
         /\ req' = [req EXCEPT ![r] = qn]

Remote == {"youtube", "spotify"}

\* both handlers reading the YouTube switch
enabled_youtube_switch(cfg, kind) == cfg.youtube_enabled

\* the switch the handler of the given kind checks first
enabled(cfg, kind) ==
    IF kind = "youtube" THEN cfg.youtube_enabled ELSE cfg.spotify_enabled

\* uuid::Uuid::new_v4().to_string(): an id nobody else holds
new_v4(r) == IF r = "r1" THEN "uuid-1" ELSE "uuid-2"

\* store_read.get(session_id) is Some(sender)
registered(session_id) ==
    session_id \in DOMAIN progress_store /\ progress_store[session_id] # None

\* download_spotify reports its progress with send_progress under a session
\* id it has just generated; the id is in no map, so the message is dropped.
\* The request after such a call.
progress_sent(q, message) ==
    IF q.kind = "spotify"
    THEN [q EXCEPT !.progress_sent = @ + 1,
                   !.progress_log = Append(@, [message |-> message,
                                               found |-> registered(q.session_id[1])])]
    ELSE q

ValidYoutubeUrl == YT_SHORT \o <<"a", "b", "c">>
ValidSpotifyUrl == SP_TRACK \o <<"x">>
EvilUrl == <<"h","t","t","p","s",":","/","/","e","v","i","l",".","c","o","m","/","x",";","r","m"," ","-","r","f">>

\* the URLs submitted in the pipeline specification (to either handler)
UrlInputs == {ValidYoutubeUrl, ValidSpotifyUrl, EvilUrl}

\* ... and in the wide one: every prefix with every body, URLs around the
\* length limits, and URLs wrapped in whitespace
HTTP_SHORT == <<"h","t","t","p",":","/","/","y","o","u","t","u",".","b","e","/">>
SP_USER == <<"h","t","t","p","s",":","/","/","o","p","e","n",".","s","p","o","t","i","f","y",".","c","o","m","/","u","s","e","r","/">>
YT_EMBED == <<"h","t","t","p","s",":","/","/","w","w","w",".","y","o","u","t","u","b","e",".","c","o","m","/","e","m","b","e","d","/">>

UrlPrefixes ==
    {YT_WWW, YT_BARE, YT_SHORT, YT_MOBILE, SP_TRACK, SP_ALBUM, SP_PLAYLIST,
     SP_ARTIST, HTTP_SHORT, SP_USER, YT_EMBED, <<"x">> \o YT_SHORT, <<>>}

UrlBodies ==
    {<<>>, <<"a">>, <<"a", ";", "b">>, <<"a", "|", "b">>, <<"a", Backtick>>,
     <<"$", "a">>, <<"a", "&", "&", "b">>, <<"a", "&", "t", "=", "1">>,
     <<"a", "|", "|", "b">>, <<"a", "&", "b", "&">>}

UrlsAroundLimit ==
    {YT_SHORT \o Repeat("a", (YoutubeMaxLen - Len(YT_SHORT)) + k) : k \in (0 - 1)..PadLong}
    \cup {SP_ALBUM \o Repeat("a", (SpotifyMaxLen - Len(SP_ALBUM)) + k) : k \in (0 - 1)..PadLong}

UrlsPadded ==
    {<<" ">> \o u \o <<"\n">> :
        u \in {ValidYoutubeUrl, ValidSpotifyUrl,
               YT_SHORT \o Repeat("a", YoutubeMaxLen - Len(YT_SHORT)),
               YT_SHORT \o <<" ", "a">>}}

UrlInputsWide ==
    {p \o b : p \in UrlPrefixes, b \in UrlBodies}
        \cup UrlsAroundLimit \cup UrlsPadded \cup UrlInputs

\* The deployments of the pipeline specification: both remote kinds on or
\* both off; the organizer on, or switched off by the runtime override; the
\* users on the global directories, or each with a library path of its own
\* (u1's names the global music directory).
Init ==
    /\ config \in {[youtube_enabled |-> b, spotify_enabled |-> b, ferric_enabled |-> TRUE] :
                        b \in BOOLEAN}
    /\ settings \in {None, Some("false")}
    /\ library_path \in {[u \in Users |-> None],
                         [u \in Users |-> IF u = "u1" THEN Some(<<"music", "">>)
                                                     ELSE Some(<<"lib">>)]}
    /\ dirs = {MusicDir, TempDir}
    /\ files = {}
    /\ upload_logs = <<>>
    /\ req = [r \in Reqs |-> IdleReq]
    /\ UnitsIdle

\* the user a request slot acts for (AuthUser.user_id)
ReqUser(r) == IF r = "r1" THEN "u1" ELSE "u2"

\* ---- download_youtube / download_spotify --------------------------------
\* entry, up to the first job-log call: the enabled check, get_user_by_id,
\* get_user_directories and the URL validation.  outcome says how far the
\* store and the filesystem let it get: "ok", "no_user", or the directory
\* whose creation failed.
download_begin(r, kind, url, outcome) ==
    LET q == [req[r] EXCEPT !.kind = kind, !.user = ReqUser(r), !.url = url,
                            !.session_id = IF kind = "spotify" THEN Some(new_v4(r))
                                           ELSE None]
        music_dir == get_user_music_dir(library_path[q.user])
        temp_dir == get_user_temp_dir(library_path[q.user])
        q1 == [q EXCEPT !.music_dir = music_dir, !.temp_dir = temp_dir]
        q2 == [q1 EXCEPT !.url_ok = Some(url_ok(kind, url))]
        disabled == ~enabled(config, kind)
    IN
    /\ req[r].pc = "idle"
    \* create_dir_all can only fail for a directory that does not exist yet
    /\ outcome = "music_failed" => music_dir \notin dirs
    /\ outcome = "temp_failed" => temp_dir \notin dirs
    /\ dirs' = IF disabled \/ outcome \in {"no_user", "music_failed"} THEN dirs
               ELSE IF outcome = "temp_failed" THEN dirs \cup {music_dir}
               ELSE dirs \cup {music_dir, temp_dir}
    /\ req' = [req EXCEPT ![r] =
            IF disabled
            THEN Respond(q, "FORBIDDEN", FALSE, Some(Msg("downloads are disabled", <<>>)))
            ELSE IF outcome = "no_user"
            THEN Respond(q, "INTERNAL_SERVER_ERROR", FALSE, Some(Msg("Failed to get user", <<>>)))
            ELSE IF outcome # "ok"
            THEN Respond(q1, "INTERNAL_SERVER_ERROR", FALSE,
                         Some(Msg("Failed to get user directories", <<>>)))
            ELSE IF ~url_ok(kind, url)
            THEN Respond(q2, "BAD_REQUEST", FALSE, Some(Msg("Invalid URL format", <<>>)))
            ELSE progress_sent([q2 EXCEPT !.pc = "create_upload_log"],
                               "Starting Spotify download...")]
    /\ UNCHANGED <<unit_vars, config, settings, library_path, files, upload_logs>>

\* the source column of the new row
log_source(q) == IF q.kind = "file" THEN <<"multipart upload">> ELSE q.url

\* db.create_upload_log(...)?
create_upload_log(r, ok) ==
    LET q == req[r] IN
    /\ q.pc = "create_upload_log"
    /\ IF ok
       THEN /\ upload_logs' = Append(upload_logs, NewRow(q.user, q.kind, log_source(q)))
            /\ req' = [req EXCEPT ![r] =
                    [q EXCEPT !.pc = "set_processing", !.log_id = Len(upload_logs) + 1]]
       ELSE /\ upload_logs' = upload_logs
            /\ req' = [req EXCEPT ![r] =
                    Respond(q, "INTERNAL_SERVER_ERROR", FALSE,
                            Some(Msg("Failed to create upload log", <<>>)))]
    /\ UNCHANGED <<unit_vars, config, settings, library_path, dirs, files>>

\* db.update_upload_log_status(log_id, "processing", None, None)?
set_processing(r, ok) ==
    LET q == req[r] IN
    /\ q.pc = "set_processing"
    /\ IF ok
       THEN /\ upload_logs' = update_upload_log_status(upload_logs, q.log_id, "processing", None, None)
            /\ req' = [req EXCEPT ![r] =
                    progress_sent(
                        [q EXCEPT !.pc = IF q.kind = "file" THEN "next_field" ELSE "download"],
                        "Downloading from Spotify...")]
       ELSE /\ upload_logs' = upload_logs
            /\ req' = [req EXCEPT ![r] =
                    Respond(q, "INTERNAL_SERVER_ERROR", FALSE, Some(Msg("Failed to update log", <<>>)))]
    /\ UNCHANGED <<unit_vars, config, settings, library_path, dirs, files>>

fetch_tool(kind) == IF kind = "youtube" THEN "yt-dlp" ELSE "spotdl"

\* the fetch with its exit status ignored: the scan and the processing
\* follow whatever the tool returned
download_run_status_ignored(r, n, success, rec_ok) ==
    LET q == req[r]
        ns == fetched_names(title_of(q.url), n)
    IN
    /\ q.pc = "download"
    /\ files' = write_files(files, q.temp_dir, ns, r)
    /\ settle(r, [q EXCEPT !.spawned = @ \cup {fetch_tool(q.kind)},
                           !.tool_url = Some(q.url),
                           !.wrote = @ \cup ns,
                           !.fetched = IF success THEN Some(n) ELSE None,
                           !.pc = "count"],
              rec_ok)
    /\ UNCHANGED <<unit_vars, config, settings, library_path, dirs>>

\* download_with_ytdlp / download_with_spotdl up to the exit of the tool: the
\* tool is run on req.url (the string of the request body, not the trimmed
\* copy the checks looked at) and writes n files into temp_dir; success is
\* its exit status.
download_run(r, n, success, rec_ok) ==
    LET q == req[r]
        ns == fetched_names(title_of(q.url), n)
        q1 == [q EXCEPT !.spawned = @ \cup {fetch_tool(q.kind)},
                        !.tool_url = Some(q.url),
                        !.wrote = @ \cup ns,
                        !.fetched = IF success THEN Some(n) ELSE None]
    IN
    /\ q.pc = "download"
    /\ files' = write_files(files, q.temp_dir, ns, r)
    /\ settle(r, IF success THEN [q1 EXCEPT !.pc = "count"]
                  ELSE Fail([q1 EXCEPT !.cause = "fetch"], "INTERNAL_SERVER_ERROR", 0,
                            Msg("Download failed", <<fetch_tool(q.kind)>>)),
              rec_ok)
    /\ UNCHANGED <<unit_vars, config, settings, library_path, dirs>>

\* the directory scan that ends download_with_*: Ok(count)
download_count(r) ==
    LET q == req[r] IN
    /\ q.pc = "count"
    /\ req' = [req EXCEPT ![r] =
            progress_sent(
                [q EXCEPT !.file_count = count_files(files, q.temp_dir), !.pc = "process"],
                "Downloaded file(s), now processing...")]
    /\ UNCHANGED <<unit_vars, config, settings, library_path, dirs, files, upload_logs>>

\* whether process_temp_dir / process_with_ferric runs the tagging tool:
\* youtube.rs runs it unconditionally, spotify.rs and upload.rs ask the store
runs_ferric(kind, cfg, st) ==
    IF kind = "youtube" THEN TRUE ELSE get_ferric_enabled(cfg, st)

\* the files the direct move iterates over: the directory listing
\* (spotify.rs) or the files this request uploaded (upload.rs)
RECURSIVE SetToSeq(_)
SetToSeq(S) ==
    IF S = {} THEN <<>>
    ELSE LET x == CHOOSE y \in S : TRUE IN <<x>> \o SetToSeq(S \ {x})

move_list(q, fs) ==
    IF q.kind = "file" THEN q.uploaded_files ELSE SetToSeq(names_in(fs, q.temp_dir))

\* the cleanup that ends the processing step: spotify.rs and youtube.rs empty
\* temp_dir, upload.rs removes the files it uploaded
cleanup(q, fs) ==
    IF q.kind = "file"
    THEN {f \in fs : ~(f.dir = q.temp_dir
                       /\ \E i \in 1..Len(q.uploaded_files) : q.uploaded_files[i] = f.name)}
    ELSE cleanup_temp_dir(fs, q.temp_dir)

\* process_temp_dir / process_with_ferric, tagging branch: Ferric runs and, if
\* it exits successfully, the cleanup follows
process_ferric(r, success, consume, rec_ok) ==
    LET q == req[r]
        q1 == [q EXCEPT !.spawned = @ \cup {"ferric"}]
    IN
    /\ q.pc = "process"
    /\ runs_ferric(q.kind, config, settings)
    /\ files' = IF success
                THEN cleanup(q, ferric_run(files, q.temp_dir, q.music_dir, consume))
                ELSE files
    /\ settle(r, IF success THEN [q1 EXCEPT !.pc = "set_completed"]
                  ELSE Fail([q1 EXCEPT !.cause = "process"], "INTERNAL_SERVER_ERROR",
                            q.file_count,
                            Msg("Processing failed", <<"Ferric processing failed">>)),
              rec_ok)
    /\ UNCHANGED <<unit_vars, config, settings, library_path, dirs>>

\* direct-move branch: the list of files to move is taken
process_move_begin(r) ==
    LET q == req[r]
        todo == move_list(q, files)
    IN
    /\ q.pc = "process"
    /\ ~runs_ferric(q.kind, config, settings)
    /\ req' = [req EXCEPT ![r] = [q EXCEPT !.todo = todo, !.pc = "move"]]
    /\ UNCHANGED <<unit_vars, config, settings, library_path, dirs, files, upload_logs>>

\* one iteration of the move loop: fs::copy(...)? then fs::remove_file(...)?
\* A source that is no longer in temp_dir makes fs::copy fail with NotFound.
process_move_one(r, copy_ok, remove_ok, rec_ok) ==
    LET q == req[r]
        n == Head(q.todo)
        present == n \in names_in(files, q.temp_dir)
        copied == copy_ok /\ present
    IN
    /\ q.pc = "move"
    /\ q.todo # <<>>
    /\ files' = IF ~copied THEN files
                ELSE IF remove_ok
                THEN remove_file(copy_file(files, q.temp_dir, q.music_dir, n), q.temp_dir, n)
                ELSE copy_file(files, q.temp_dir, q.music_dir, n)
    /\ settle(r, IF copied /\ remove_ok THEN [q EXCEPT !.todo = Tail(q.todo)]
                  ELSE Fail([q EXCEPT !.todo = <<>>, !.cause = "process"],
                            "INTERNAL_SERVER_ERROR", q.file_count,
                            Msg("Processing failed",
                                IF present THEN <<"io error">>
                                ELSE <<"No such file or directory">>)),
              rec_ok)
    /\ UNCHANGED <<unit_vars, config, settings, library_path, dirs>>

\* the move loop is over: the cleanup, then Ok(())
process_move_end(r) ==
    LET q == req[r] IN
    /\ q.pc = "move"
    /\ q.todo = <<>>
    /\ files' = cleanup(q, files)
    /\ req' = [req EXCEPT ![r] = [q EXCEPT !.pc = "set_completed"]]
    /\ UNCHANGED <<unit_vars, config, settings, library_path, dirs, upload_logs>>

\* tokio::spawn(async move { sleep(2 s); unregister_session(&store, &sid) })
spawn_unregister(q) ==
    IF q.kind = "spotify" THEN [q EXCEPT !.unregister = "scheduled"] ELSE q

\* the completed write with .ok() in place of ?: its error is dropped
set_completed_unchecked(r, ok) ==
    LET q == req[r] IN
    /\ q.pc = "set_completed"
    /\ upload_logs' = IF ok
                      THEN update_upload_log_status(
                              upload_logs, q.log_id, "completed", Some(q.file_count), None)
                      ELSE upload_logs
    /\ req' = [req EXCEPT ![r] = Respond(q, "OK", TRUE, None)]
    /\ UNCHANGED <<unit_vars, config, settings, library_path, dirs, files>>

\* db.update_upload_log_status(log_id, "completed", Some(file_count), None)?
set_completed(r, ok) ==
    LET q == req[r] IN
    /\ q.pc = "set_completed"
    /\ IF ok
       THEN /\ upload_logs' = update_upload_log_status(
                    upload_logs, q.log_id, "completed", Some(q.file_count), None)
            /\ req' = [req EXCEPT ![r] =
                    Respond(spawn_unregister(progress_sent(q, "Complete!")), "OK", TRUE, None)]
       ELSE /\ upload_logs' = upload_logs
            /\ req' = [req EXCEPT ![r] =
                    Respond(q, "INTERNAL_SERVER_ERROR", FALSE, Some(Msg("Failed to update log", <<>>)))]
    /\ UNCHANGED <<unit_vars, config, settings, library_path, dirs, files>>

\* the spawned task once its sleep is over: unregister_session removes the
\* session id from the map (HashMap::remove of an absent key changes nothing)
unregister_task(r) ==
    LET q == req[r]
        sid == q.session_id[1]
    IN
    /\ q.unregister = "scheduled"
    /\ progress_store' = [s \in DOMAIN progress_store |->
                            IF s = sid THEN None ELSE progress_store[s]]
    /\ req' = [req EXCEPT ![r] = [q EXCEPT !.unregister = "done"]]
    /\ UNCHANGED <<admin_vars, channels, progress_call, lock, ensure_vars, argv,
                   config, settings, library_path, dirs, files, upload_logs>>

\* ---- upload_files -----------------------------------------------------------
\* entry, up to the first job-log call: get_user_by_id, get_user_directories
upload_begin(r, outcome) ==
    LET q == [req[r] EXCEPT !.kind = "file", !.user = ReqUser(r)]
        music_dir == get_user_music_dir(library_path[q.user])
        temp_dir == get_user_temp_dir(library_path[q.user])
        q1 == [q EXCEPT !.music_dir = music_dir, !.temp_dir = temp_dir]
    IN
    /\ req[r].pc = "idle"
    /\ outcome = "music_failed" => music_dir \notin dirs
    /\ outcome = "temp_failed" => temp_dir \notin dirs
    /\ dirs' = IF outcome \in {"no_user", "music_failed"} THEN dirs
               ELSE IF outcome = "temp_failed" THEN dirs \cup {music_dir}
               ELSE dirs \cup {music_dir, temp_dir}
    /\ req' = [req EXCEPT ![r] =
            IF outcome = "no_user"
            THEN Respond(q, "INTERNAL_SERVER_ERROR", FALSE, Some(Msg("Failed to get user", <<>>)))
            ELSE IF outcome # "ok"
            THEN Respond(q1, "INTERNAL_SERVER_ERROR", FALSE,
                         Some(Msg("Failed to get user directories", <<>>)))
            ELSE [q1 EXCEPT !.pc = "create_upload_log"]]
    /\ UNCHANGED <<unit_vars, config, settings, library_path, files, upload_logs>>

\* multipart.next_field() fails: internal_error through the ? operator
next_field_error(r) ==
    LET q == req[r] IN
    /\ q.pc = "next_field"
    /\ q.fields < MaxParts
    /\ req' = [req EXCEPT ![r] =
            Respond([q EXCEPT !.cause = "field"], "INTERNAL_SERVER_ERROR", FALSE,
                    Some(Msg("Failed to read field", <<>>)))]
    /\ UNCHANGED <<unit_vars, config, settings, library_path, dirs, files, upload_logs>>

\* the end of the loop without the uploaded_files.is_empty() test
next_field_end_unchecked(r, rec_ok) ==
    LET q == req[r] IN
    /\ q.pc = "next_field"
    /\ settle(r, [q EXCEPT !.pc = "process"], rec_ok)
    /\ UNCHANGED <<unit_vars, config, settings, library_path, dirs, files>>

\* multipart.next_field() yields None: the loop ends; with no uploaded file
\* the request fails, else process_with_ferric is next
next_field_end(r, rec_ok) ==
    LET q == req[r] IN
    /\ q.pc = "next_field"
    /\ settle(r, IF q.uploaded_files = <<>>
                  THEN Fail(q, "BAD_REQUEST", 0, Msg("No files uploaded", <<>>))
                  ELSE [q EXCEPT !.pc = "process"],
              rec_ok)
    /\ UNCHANGED <<unit_vars, config, settings, library_path, dirs, files>>

\* multipart.next_field() yields a field; file_name is field.file_name().
\* The body of the loop down to the extension check.
next_field(r, file_name, rec_ok) ==
    LET q == [req[r] EXCEPT !.fields = @ + 1, !.part = file_name]
        sanitized == path_file_name(file_name[1])
        extension == path_extension(sanitized[1])
    IN
    /\ req[r].pc = "next_field"
    /\ req[r].fields < MaxParts
    /\ settle(r,
            IF file_name = None THEN [q EXCEPT !.part = None]
            ELSE IF sanitized = None
            THEN Respond(q, "INTERNAL_SERVER_ERROR", FALSE, Some(Msg("Invalid filename", <<>>)))
            ELSE IF is_suspicious(sanitized[1])
            THEN Fail(q, "BAD_REQUEST", q.file_count,
                      Msg("Invalid filename: path traversal attempt detected", <<>>))
            ELSE IF extension \notin allowed_extensions
            THEN Fail(q, "BAD_REQUEST", q.file_count, Msg("File type not allowed", extension))
            ELSE [q EXCEPT !.pc = "read_part", !.sanitized_name = sanitized[1]],
            rec_ok)
    /\ UNCHANGED <<unit_vars, config, settings, library_path, dirs, files>>

\* the rest of the loop body: field.bytes(), the size check, File::create and
\* write_all.  len is data.len(); io says which call, if any, fails.
save_part(r, len, io, rec_ok) ==
    LET q == IF io = "bytes_failed" THEN req[r]
             ELSE [req[r] EXCEPT !.data_len = Some(len)]
        n == q.sanitized_name
        io_error(cause, text) ==
            Respond([q EXCEPT !.cause = cause], "INTERNAL_SERVER_ERROR", FALSE,
                    Some(Msg(text, <<>>)))
    IN
    /\ q.pc = "read_part"
    /\ io \in {"create_failed", "write_failed"} => len <= max_file_size_bytes
    /\ files' = IF io \in {"ok", "write_failed"} /\ len <= max_file_size_bytes
                THEN write_file(files, q.temp_dir, n, r) ELSE files
    /\ settle(r,
            IF io = "bytes_failed" THEN io_error("bytes", "Failed to read file")
            ELSE IF len > max_file_size_bytes
            THEN Fail(q, "BAD_REQUEST", q.file_count,
                      MsgN("File too large", <<>>,
                           <<(len \div 1024) \div 1024, max_file_size_mb>>))
            ELSE IF io = "create_failed" THEN io_error("create", "Failed to create file")
            ELSE IF io = "write_failed"
            THEN [io_error("write", "Failed to write file") EXCEPT !.wrote = @ \cup {n}]
            \* the field and the names derived from it end with the iteration
            ELSE [q EXCEPT !.pc = "next_field",
                           !.part = None, !.sanitized_name = <<>>,
                           !.uploaded_files = Append(@, n),
                           !.file_count = @ + 1,
                           !.wrote = @ \cup {n}],
            rec_ok)
    /\ UNCHANGED <<unit_vars, config, settings, library_path, dirs>>

\* client-supplied file names of the multipart fields
NameAMp3   == <<"a", ".", "m", "p", "3">>
NameDirA   == <<"d", "/", "a", ".", "m", "p", "3">>
NameBFlac  == <<"b", ".", "f", "l", "a", "c">>
NameDotDot == <<".", ".">>
NameUpDir  == <<"d", "/", ".", ".">>
NameDots   == <<"a", ".", ".", "m", "p", "3">>
NameBack   == <<"a", "\\", "b", ".", "m", "p", "3">>
NameExe    == <<"a", ".", "e", "x", "e">>
NameNoExt  == <<"R", "E", "A", "D", "M", "E">>
NameHidden == <<".", "m", "p", "3">>
NameUpper  == <<"a", ".", "M", "P", "3">>
NameEmpty  == <<>>

\* the names submitted in the pipeline specification, and in the wide one
FileNameInputs == {NameAMp3, NameBFlac, NameDotDot, NameDots, NameExe}

FileNameInputsWide ==
    {NameAMp3, NameDirA, NameBFlac, NameDotDot, NameUpDir, NameDots, NameBack,
     NameExe, NameNoExt, NameHidden, NameUpper, NameEmpty}

\* data.len() of a part: at the limit and just over it
LenInputs == {max_file_size_bytes, max_file_size_bytes + 1}

BeginOutcomes == {"ok", "no_user", "music_failed", "temp_failed"}
IoOutcomes == {"ok", "bytes_failed", "create_failed", "write_failed"}

\* The handlers' steps.  RS: the request slots; US: the slots that may carry
\* an upload; urls, names: what clients submit.
Steps(RS, US, urls, names) ==
    \/ \E r \in RS, kind \in Remote, outcome \in BeginOutcomes :
            \E url \in urls : download_begin(r, kind, url, outcome)
    \/ \E r \in US, outcome \in BeginOutcomes : upload_begin(r, outcome)
    \/ \E r \in RS, ok \in BOOLEAN : create_upload_log(r, ok)
    \/ \E r \in RS, ok \in BOOLEAN : set_processing(r, ok)
    \/ \E r \in RS, n \in 0..MaxFetch, success \in BOOLEAN, rec_ok \in BOOLEAN :
            download_run(r, n, success, rec_ok)
    \/ \E r \in RS : download_count(r)
    \/ \E r \in RS : next_field_error(r)
    \/ \E r \in RS, rec_ok \in BOOLEAN : next_field_end(r, rec_ok)
    \/ \E r \in RS, file_name \in names, rec_ok \in BOOLEAN :
            next_field(r, file_name, rec_ok)
    \/ \E r \in RS, len \in LenInputs, io \in IoOutcomes, rec_ok \in BOOLEAN :
            save_part(r, len, io, rec_ok)
    \/ \E r \in RS, success \in BOOLEAN, consume \in BOOLEAN, rec_ok \in BOOLEAN :
            process_ferric(r, success, consume, rec_ok)
    \/ \E r \in RS : process_move_begin(r)
    \/ \E r \in RS, copy_ok \in BOOLEAN, remove_ok \in BOOLEAN, rec_ok \in BOOLEAN :
            process_move_one(r, copy_ok, remove_ok, rec_ok)
    \/ \E r \in RS : process_move_end(r)
    \/ \E r \in RS, ok \in BOOLEAN : set_completed(r, ok)
    \/ \E r \in RS : unregister_task(r)

\* ---- the pipeline specification: two request slots, run concurrently, of
\* two users; r1 carries any kind of job, r2 a remote one
Next == Steps(Reqs, {"r1"}, UrlInputs, {Some(n) : n \in FileNameInputs})

Spec == Init /\ [][Next]_vars

\* ---- the wide specification: one request at a time, over every deployment
\* and the wide sets of URLs and file names
InitWide ==
    /\ config \in [youtube_enabled : BOOLEAN, spotify_enabled : BOOLEAN,
                   ferric_enabled : BOOLEAN]
    /\ settings \in {None, Some("true"), Some("false")}
    /\ library_path \in
            {[u \in Users |-> IF u = ReqUser("r1") THEN lp ELSE None] :
                lp \in {None, Some(<<"music">>), Some(<<"music", "">>),
                        Some(<<"lib">>), Some(<<"music", "sub">>)}}
    /\ dirs = {MusicDir, TempDir}
    /\ files = {}
    /\ upload_logs = <<>>
    /\ req = [r \in Reqs |-> IdleReq]
    /\ UnitsIdle

NextWide ==
    Steps({"r1"}, {"r1"}, UrlInputsWide,
          {None} \cup {Some(n) : n \in FileNameInputsWide})

SpecWide == InitWide /\ [][NextWide]_vars

\* ---- ensure_directory_exists, step by step ----------------------------
MaxEnsure == 2     \* most calls of ensure_directory_exists one caller makes

\* the pipeline at rest, in the default deployment
PipelineIdle ==
    /\ config = [youtube_enabled |-> TRUE, spotify_enabled |-> TRUE, ferric_enabled |-> TRUE]
    /\ settings = None
    /\ library_path = [u \in Users |-> None]
    /\ files = {}
    /\ upload_logs = <<>>
    /\ req = [r \in Reqs |-> IdleReq]

\* the directories get_user_directories asks for: the global pair, and the
\* pairs of the overrides "lib" and "music"
EnsurePaths ==
    {MusicDir, TempDir, <<"lib">>, <<"lib", "tmp">>, <<"music", "default">>}

\* the path with its ancestors
ancestors(path) == {SubSeq(path, 1, k) : k \in 1..Len(path)}

\* create_dir_all answering AlreadyExists for a directory that is there
create_dir_all_strict(ds, path, ok) ==
    IF path \in ds THEN [dirs |-> ds, result |-> "Err"]
    ELSE IF ok THEN [dirs |-> ds \cup ancestors(path), result |-> "Ok"]
    ELSE [dirs |-> ds, result |-> "Err"]

\* fs::create_dir_all(path): Ok on a directory that is there already, also
\* when it appeared after the caller looked; else the path is created with
\* its ancestors, or the call fails (ok says which)
create_dir_all(ds, path, ok) ==
    IF path \in ds THEN [dirs |-> ds, result |-> "Ok"]
    ELSE IF ok THEN [dirs |-> ds \cup ancestors(path), result |-> "Ok"]
    ELSE [dirs |-> ds, result |-> "Err"]

\* ensure_directory_exists(path) is called
ensure_call(r, path) ==
    /\ ensure[r].pc \in {"idle", "done"}
    /\ ensure[r].n < MaxEnsure
    /\ ensure' = [ensure EXCEPT ![r] =
            [pc |-> "exists", path |-> path, n |-> ensure[r].n + 1,
             again |-> path \in ensured, raced |-> FALSE,
             created |-> {}, result |-> "none"]]
    /\ UNCHANGED <<admin_vars, ensured, dirs, progress_vars, argv,
                   config, settings, library_path, files, upload_logs, req>>

\* if !path.exists() { ... } Ok(())
ensure_exists(r) ==
    LET e == ensure[r] IN
    /\ e.pc = "exists"
    /\ ensure' = [ensure EXCEPT ![r] =
            IF e.path \in dirs THEN [e EXCEPT !.pc = "done", !.result = "Ok"]
            ELSE [e EXCEPT !.pc = "create"]]
    /\ ensured' = IF e.path \in dirs THEN ensured \cup {e.path} ELSE ensured
    /\ UNCHANGED <<admin_vars, dirs, progress_vars, argv,
                   config, settings, library_path, files, upload_logs, req>>

\* fs::create_dir_all(path).await.context(...)?; Ok(())
ensure_create(r, ok) ==
    LET e == ensure[r]
        made == create_dir_all(dirs, e.path, ok)
    IN
    /\ e.pc = "create"
    /\ dirs' = made.dirs
    /\ ensure' = [ensure EXCEPT ![r] =
            [e EXCEPT !.pc = "done", !.raced = e.path \in dirs,
                      !.created = made.dirs \ dirs, !.result = made.result]]
    /\ ensured' = IF made.result = "Ok" THEN ensured \cup {e.path} ELSE ensured
    /\ UNCHANGED <<admin_vars, progress_vars, argv,
                   config, settings, library_path, files, upload_logs, req>>

InitDirs ==
    /\ PipelineIdle
    /\ dirs = {MusicDir, TempDir}
    /\ UnitsIdle

NextDirs ==
    \/ \E r \in Reqs, path \in EnsurePaths : ensure_call(r, path)
    \/ \E r \in Reqs : ensure_exists(r)
    \/ \E r \in Reqs, ok \in BOOLEAN : ensure_create(r, ok)

\* two callers of ensure_directory_exists, interleaved at its await points
SpecDirs == InitDirs /\ [][NextDirs]_vars

\* ---- progress.rs ---------------------------------------------------------
MaxProgressCalls == 3   \* most calls into progress.rs in one behaviour
MaxChannels == 2        \* most channels register_session makes

ChannelCapacity == 100  \* mpsc::channel(100)

Messages == {"a", "b"}

\* mpsc::channel(100): an empty queue and a live Receiver; next to it, the
\* session id the Sender is stored under and the messages the Receiver has
\* taken so far
NewChannel == [queue |-> <<>>, rx_alive |-> TRUE, session_id |-> "none", received |-> <<>>]

\* the record of a call into progress.rs; sent keeps, per session id, the
\* messages send_progress was called with
Called(op, session_id, message, outcome) ==
    [n |-> progress_call.n + 1, op |-> op, session_id |-> session_id,
     message |-> message, outcome |-> outcome,
     sent |-> IF op = "send_progress"
              THEN [progress_call.sent EXCEPT ![session_id] = Append(@, message)]
              ELSE progress_call.sent]

\* a sender that makes room in a full channel by dropping the oldest message
try_send_overwrite(ch, message) ==
    IF ~ch.rx_alive THEN [ch |-> ch, outcome |-> "closed"]
    ELSE IF Len(ch.queue) >= ChannelCapacity
    THEN [ch |-> [ch EXCEPT !.queue = Append(Tail(@), message)], outcome |-> "queued"]
    ELSE [ch |-> [ch EXCEPT !.queue = Append(@, message)], outcome |-> "queued"]

\* Sender::try_send: Err(Closed) without a receiver, Err(Full) at capacity,
\* else the message is queued; the channel afterwards and what happened
try_send(ch, message) ==
    IF ~ch.rx_alive THEN [ch |-> ch, outcome |-> "closed"]
    ELSE IF Len(ch.queue) >= ChannelCapacity THEN [ch |-> ch, outcome |-> "full"]
    ELSE [ch |-> [ch EXCEPT !.queue = Append(@, message)], outcome |-> "queued"]

\* send_progress(store, session_id, message): under the read lock, try_send
\* on the session's sender if there is one; the result is discarded
send_progress(session_id, message) ==
    LET sender == progress_store[session_id]
        sent == try_send(channels[sender[1]], message)
    IN
    /\ progress_call.n < MaxProgressCalls
    /\ channels' = IF sender = None THEN channels
                   ELSE [channels EXCEPT ![sender[1]] = sent.ch]
    /\ progress_call' = Called("send_progress", session_id, message,
                               IF sender = None THEN "unknown" ELSE sent.outcome)
    /\ UNCHANGED <<admin_vars, progress_store, lock, ensure_vars, argv, handler_vars>>

\* register_session(store, session_id): a new channel, its sender inserted
\* under the session id (replacing the one that was there)
register_session(session_id) ==
    /\ progress_call.n < MaxProgressCalls
    /\ Len(channels) < MaxChannels
    /\ channels' = Append(channels, [NewChannel EXCEPT !.session_id = session_id])
    /\ progress_store' = [progress_store EXCEPT ![session_id] = Some(Len(channels) + 1)]
    /\ progress_call' = Called("register_session", session_id, "none", "none")
    /\ UNCHANGED <<admin_vars, lock, ensure_vars, argv, handler_vars>>

\* unregister_session(store, session_id)
unregister_session(session_id) ==
    /\ progress_call.n < MaxProgressCalls
    /\ progress_store' = [progress_store EXCEPT ![session_id] = None]
    /\ progress_call' = Called("unregister_session", session_id, "none", "none")
    /\ UNCHANGED <<admin_vars, channels, lock, ensure_vars, argv, handler_vars>>

\* a Receiver that hands out the oldest message and leaves it in the queue
recv_without_pop(c) ==
    /\ c \in DOMAIN channels
    /\ channels[c].rx_alive
    /\ channels[c].queue # <<>>
    /\ channels' = [channels EXCEPT ![c].received = Append(@, Head(channels[c].queue))]
    /\ UNCHANGED <<admin_vars, progress_store, progress_call, lock, ensure_vars, argv, handler_vars>>

\* the holder of the Receiver takes the oldest message
recv(c) ==
    /\ c \in DOMAIN channels
    /\ channels[c].rx_alive
    /\ channels[c].queue # <<>>
    /\ channels' = [channels EXCEPT ![c].queue = Tail(@),
                                    ![c].received = Append(@, Head(channels[c].queue))]
    /\ UNCHANGED <<admin_vars, progress_store, progress_call, lock, ensure_vars, argv, handler_vars>>

\* the holder of the Receiver drops it
drop_receiver(c) ==
    /\ c \in DOMAIN channels
    /\ channels[c].rx_alive
    /\ channels' = [channels EXCEPT ![c].rx_alive = FALSE]
    /\ UNCHANGED <<admin_vars, progress_store, progress_call, lock, ensure_vars, argv, handler_vars>>

\* the store is empty, or session s1 is registered and its channel holds
\* the messages sent to it so far: none, one short of the capacity, or the
\* full capacity
InitProgress ==
    /\ PipelineIdle
    /\ AdminIdle
    /\ dirs = {MusicDir, TempDir}
    /\ EnsureIdle
    /\ ArgvIdle
    /\ lock = LockFree
    /\ \/ ProgressIdle
       \/ \E k \in {0, ChannelCapacity - 1, ChannelCapacity} :
            /\ channels = <<[NewChannel EXCEPT !.queue = Repeat("a", k),
                                              !.session_id = "s1"]>>
            /\ progress_store = [s \in Sessions |-> IF s = "s1" THEN Some(1) ELSE None]
            /\ progress_call = [n |-> 0, op |-> "none", session_id |-> "none",
                                message |-> "none", outcome |-> "none",
                                sent |-> [s \in Sessions |->
                                            IF s = "s1" THEN Repeat("a", k) ELSE <<>>]]

NextProgress ==
    \/ \E session_id \in Sessions, message \in Messages : send_progress(session_id, message)
    \/ \E session_id \in Sessions : register_session(session_id)
    \/ \E session_id \in Sessions : unregister_session(session_id)
    \/ \E c \in 1..MaxChannels : recv(c)
    \/ \E c \in 1..MaxChannels : drop_receiver(c)

SpecProgress == InitProgress /\ [][NextProgress]_vars

\* ---- the argument builders -------------------------------------------
\* An argument is a sequence of pieces that stands for their concatenation:
\* a literal of the code is one piece, configured text and URLs come
\* character by character.
MaxExtraArgs == 2   \* most entries of config.youtube.extra_args

\* Path::display: the components joined by '/'
RECURSIVE path_display(_)
path_display(path) ==
    IF Len(path) <= 1 THEN path
    ELSE <<Head(path), "/">> \o path_display(Tail(path))

\* yt-dlp arguments with the extra_args put after the URL
build_ytdlp_args_url_before_extra(cfg, temp_dir, url) ==
    LET format_selector == trim(cfg.format_selector)
        trimmed == trim(cfg.player_client[1])
    IN  << <<"--no-warnings">>, <<"--extract-audio">>, <<"--audio-format">>,
           cfg.audio_format, <<"--output">>,
           path_display(temp_dir) \o <<"/%(title)s.%(ext)s">>,
           <<"--no-playlist">>, <<"--ignore-no-formats-error">> >>
        \o (IF format_selector # <<>> THEN << <<"--format">>, format_selector >> ELSE <<>>)
        \o (IF cfg.player_client # None /\ trimmed # <<>>
            THEN << <<"--extractor-args">>, <<"youtube:player_client=">> \o trimmed >>
            ELSE <<>>)
        \o <<url>>
        \o cfg.extra_args

\* yt-dlp arguments with the configured texts used as they are, untrimmed
build_ytdlp_args_untrimmed(cfg, temp_dir, url) ==
    LET format_selector == cfg.format_selector
        trimmed == cfg.player_client[1]
    IN  << <<"--no-warnings">>, <<"--extract-audio">>, <<"--audio-format">>,
           cfg.audio_format, <<"--output">>,
           path_display(temp_dir) \o <<"/%(title)s.%(ext)s">>,
           <<"--no-playlist">>, <<"--ignore-no-formats-error">> >>
        \o (IF format_selector # <<>> THEN << <<"--format">>, format_selector >> ELSE <<>>)
        \o (IF cfg.player_client # None /\ trimmed # <<>>
            THEN << <<"--extractor-args">>, <<"youtube:player_client=">> \o trimmed >>
            ELSE <<>>)
        \o cfg.extra_args
        \o <<url>>

\* youtube.rs build_ytdlp_args; cfg is config.youtube
build_ytdlp_args(cfg, temp_dir, url) ==
    LET format_selector == trim(cfg.format_selector)
        trimmed == trim(cfg.player_client[1])
    IN  << <<"--no-warnings">>, <<"--extract-audio">>, <<"--audio-format">>,
           cfg.audio_format, <<"--output">>,
           path_display(temp_dir) \o <<"/%(title)s.%(ext)s">>,
           <<"--no-playlist">>, <<"--ignore-no-formats-error">> >>
        \o (IF format_selector # <<>> THEN << <<"--format">>, format_selector >> ELSE <<>>)
        \o (IF cfg.player_client # None /\ trimmed # <<>>
            THEN << <<"--extractor-args">>, <<"youtube:player_client=">> \o trimmed >>
            ELSE <<>>)
        \o cfg.extra_args
        \o <<url>>

\* spotdl arguments with the directory given where the pattern belongs
build_spotdl_args_directory(cfg, temp_dir, url) ==
    << <<"download">>, url, <<"--output">>, path_display(temp_dir),
       <<"--format">>, cfg.audio_format >>

\* spotify.rs build_spotdl_args; cfg is config.spotify
build_spotdl_args(cfg, temp_dir, url) ==
    << <<"download">>, url, <<"--output">>,
       path_display(temp_dir) \o <<"/{artist} - {title}.{output-ext}">>,
       <<"--format">>, cfg.audio_format >>

\* the defaults of config.youtube
DefaultFormatSelector ==
    <<"b", "e", "s", "t", "a", "u", "d", "i", "o", "/", "b", "e", "s", "t">>
DefaultPlayerClient == Some(<<"w", "e", "b">>)

\* configured texts: the default, one wrapped in whitespace, blank, empty
FormatSelectors == {DefaultFormatSelector, <<" ", "1", "4", "0", "\n">>, <<" ", "\t">>, <<>>}
PlayerClients ==
    {DefaultPlayerClient, None, Some(<<" ", "i", "o", "s", " ">>), Some(<<" ">>), Some(<<>>)}
AudioFormats == {<<"best">>, <<"mp3">>}
ExtraArgPool == {<<"--throttled-rate=100K">>, <<"--verbose">>}

\* the sequences of at most n entries of the pool
RECURSIVE SeqsUpTo(_, _)
SeqsUpTo(S, n) ==
    IF n = 0 THEN {<<>>}
    ELSE LET shorter == SeqsUpTo(S, n - 1)
         IN  shorter \cup {Append(q, x) : q \in shorter, x \in S}

YoutubeConfigs ==
    [audio_format : AudioFormats, format_selector : FormatSelectors,
     player_client : PlayerClients, extra_args : SeqsUpTo(ExtraArgPool, MaxExtraArgs)]
SpotifyConfigs == [audio_format : AudioFormats]

TempDirs == {TempDir, <<"lib", "tmp">>}
ArgUrls == {ValidYoutubeUrl, ValidSpotifyUrl, <<" ">> \o ValidYoutubeUrl \o <<"\n">>}

\* download_with_ytdlp: let args = build_ytdlp_args(config, temp_dir, url)
call_build_ytdlp_args ==
    /\ argv.tool = "yt-dlp"
    /\ argv.args = None
    /\ argv' = [argv EXCEPT !.args = Some(build_ytdlp_args(argv.cfg, argv.temp_dir, argv.url))]
    /\ UNCHANGED <<admin_vars, progress_vars, ensure_vars, handler_vars>>

\* download_with_spotdl: let args = build_spotdl_args(config, temp_dir, url)
call_build_spotdl_args ==
    /\ argv.tool = "spotdl"
    /\ argv.args = None
    /\ argv' = [argv EXCEPT !.args = Some(build_spotdl_args(argv.cfg, argv.temp_dir, argv.url))]
    /\ UNCHANGED <<admin_vars, progress_vars, ensure_vars, handler_vars>>

\* a fetch is about to build its arguments, for any configuration of its
\* tool, temp_dir and URL
InitArgs ==
    /\ PipelineIdle
    /\ AdminIdle
    /\ dirs = {MusicDir, TempDir}
    /\ ProgressIdle
    /\ EnsureIdle
    /\ \E temp_dir \in TempDirs, url \in ArgUrls :
        \/ \E cfg \in YoutubeConfigs :
                argv = [tool |-> "yt-dlp", cfg |-> cfg, temp_dir |-> temp_dir,
                        url |-> url, args |-> None]
        \/ \E cfg \in SpotifyConfigs :
                argv = [tool |-> "spotdl", cfg |-> cfg, temp_dir |-> temp_dir,
                        url |-> url, args |-> None]

NextArgs ==
    \/ call_build_ytdlp_args
    \/ call_build_spotdl_args

SpecArgs == InitArgs /\ [][NextArgs]_vars

\* ---- the lock of the ProgressStore, guard by guard -----------------------
\* A task is download_spotify with the task it spawns, possibly after a call
\* of register_session under the job's session id.  Its position is req[t].pc:
\* X_wait while store.read()/write() is awaited for call X, X_held while the
\* guard is held, tool_wait while the output of an external process (spotdl,
\* then Ferric) is awaited.
ProgressTexts ==
    <<"Starting Spotify download...", "Downloading from Spotify...",
      "Downloaded file(s), now processing...", "Complete!">>

\* some caller registers the session of the job before the job starts
task_register(t) ==
    /\ req[t].pc = "idle"
    /\ Len(channels) < MaxChannels
    /\ req' = [req EXCEPT ![t] = [@ EXCEPT !.pc = "register_wait", !.kind = "spotify",
                                             !.session_id = Some(new_v4(t))]]
    /\ UNCHANGED <<config, settings, library_path, dirs, files, upload_logs,
                   unit_vars>>

\* download_spotify up to its first send_progress
task_start(t) ==
    /\ req[t].pc = "idle"
    /\ req' = [req EXCEPT ![t] = [@ EXCEPT !.pc = "send_wait", !.kind = "spotify",
                                             !.session_id = Some(new_v4(t))]]
    /\ UNCHANGED <<config, settings, library_path, dirs, files, upload_logs,
                   unit_vars>>

\* store.read().await / store.write().await returns its guard: a read guard
\* while no write guard is held, a write guard while no guard is held
guard_acquire(t) ==
    LET q == req[t] IN
    /\ q.pc \in {"send_wait", "register_wait", "unregister_wait"}
    /\ lock.writer = None
    /\ q.pc # "send_wait" => lock.readers = {}
    /\ lock' = IF q.pc = "send_wait" THEN [lock EXCEPT !.readers = @ \cup {t}]
               ELSE [lock EXCEPT !.writer = Some(t)]
    /\ req' = [req EXCEPT ![t] =
            [q EXCEPT !.pc = IF q.pc = "send_wait" THEN "send_held"
                             ELSE IF q.pc = "register_wait" THEN "register_held"
                             ELSE "unregister_held"]]
    /\ UNCHANGED <<admin_vars, config, settings, library_path, dirs, files, upload_logs,
                   progress_store, channels, progress_call, ensure_vars, argv>>

\* a guard that is not dropped when the function returns
guard_release_leaks(t) ==
    LET q == req[t]
        sid == q.session_id[1]
        k == q.progress_sent + 1
    IN
    /\ q.pc \in {"send_held", "register_held", "unregister_held"}
    /\ lock' = lock
    /\ progress_store' = progress_store
    /\ channels' = channels
    /\ req' = [req EXCEPT ![t] =
            IF q.pc = "send_held"
            THEN [q EXCEPT !.progress_sent = k,
                           !.pc = IF k \in {2, 3} THEN "tool_wait"
                                  ELSE IF k = 4 THEN "unregister_wait" ELSE "send_wait"]
            ELSE [q EXCEPT !.pc = IF q.pc = "register_held" THEN "send_wait" ELSE "done"]]
    /\ UNCHANGED <<admin_vars, config, settings, library_path, dirs, files, upload_logs,
                   progress_call, ensure_vars, argv>>

\* the body of send_progress, register_session or unregister_session under
\* its guard, and the drop of the guard as the function returns.  After its
\* second and third message the job awaits an external process; after the
\* fourth the spawned task goes on to unregister_session.
guard_release(t) ==
    LET q == req[t]
        sid == q.session_id[1]
        k == q.progress_sent + 1
        sender == progress_store[sid]
    IN
    /\ q.pc \in {"send_held", "register_held", "unregister_held"}
    /\ lock' = [readers |-> lock.readers \ {t},
                writer |-> IF lock.writer = Some(t) THEN None ELSE lock.writer]
    /\ progress_store' =
            IF q.pc = "register_held"
            THEN [progress_store EXCEPT ![sid] = Some(Len(channels) + 1)]
            ELSE IF q.pc = "unregister_held"
            THEN [progress_store EXCEPT ![sid] = None]
            ELSE progress_store
    /\ channels' =
            IF q.pc = "register_held"
            THEN Append(channels, [NewChannel EXCEPT !.session_id = sid])
            ELSE IF q.pc = "send_held" /\ sender # None
            THEN [channels EXCEPT ![sender[1]] = try_send(@, ProgressTexts[k]).ch]
            ELSE channels
    /\ req' = [req EXCEPT ![t] =
            IF q.pc = "send_held"
            THEN [q EXCEPT !.progress_sent = k,
                           !.pc = IF k \in {2, 3} THEN "tool_wait"
                                  ELSE IF k = 4 THEN "unregister_wait" ELSE "send_wait"]
            ELSE [q EXCEPT !.pc = IF q.pc = "register_held" THEN "send_wait" ELSE "done"]]
    /\ UNCHANGED <<admin_vars, config, settings, library_path, dirs, files, upload_logs,
                   progress_call, ensure_vars, argv>>

\* Command::output().await returns: the external process has exited.  A
\* tool that hangs is a task that stays in tool_wait.
tool_exit(t, success) ==
    /\ req[t].pc = "tool_wait"
    /\ req' = [req EXCEPT ![t] = [@ EXCEPT !.pc = IF success THEN "send_wait" ELSE "done"]]
    /\ UNCHANGED <<config, settings, library_path, dirs, files, upload_logs,
                   unit_vars>>

InitLock ==
    /\ PipelineIdle
    /\ AdminIdle
    /\ dirs = {MusicDir, TempDir}
    /\ EnsureIdle
    /\ ArgvIdle
    /\ progress_call = [n |-> 0, op |-> "none", session_id |-> "none",
                        message |-> "none", outcome |-> "none",
                        sent |-> [s \in Sessions |-> <<>>]]
    /\ lock = LockFree
    /\ channels = <<>>
    /\ progress_store = [s \in {new_v4(t) : t \in Reqs} |-> None]

NextLock ==
    \/ \E t \in Reqs : task_register(t)
    \/ \E t \in Reqs : task_start(t)
    \/ \E t \in Reqs : guard_acquire(t)
    \/ \E t \in Reqs : guard_release(t)
    \/ \E t \in Reqs, success \in BOOLEAN : tool_exit(t, success)

SpecLock == InitLock /\ [][NextLock]_vars

\* ---- handlers/admin.rs ---------------------------------------------------
\* Every handler is reached through auth_middleware only (main.rs: the routes
\* are layered with auth_middleware, admin_middleware is layered on none):
\* caller is the AuthUser of a verified token, caller.is_admin its claim.
\* Each handler makes its database calls and returns; the answer is kept in
\* admin_call.
LogLimit == 100

Answer(op, caller, code) ==
    [op |-> op, caller |-> caller.user_id, is_admin |-> caller.is_admin,
     code |-> code, logs |-> None]

\* create_user: the username and password checks, then db.create_user under
\* a fresh id; insert is what the INSERT returns
create_user(caller, username, password, is_admin, lp, insert) ==
    LET id == CHOOSE u \in Users : u \notin DOMAIN users
        taken == \E u \in DOMAIN users : users[u].username = username
        code == IF Len(username) < 3 \/ Len(password) < 8 THEN "BAD_REQUEST"
                ELSE IF insert = "duplicate" THEN "CONFLICT"
                ELSE IF insert = "error" THEN "INTERNAL_SERVER_ERROR"
                ELSE "OK"
    IN
    /\ DOMAIN users # Users
    /\ insert = "duplicate" <=> taken
    /\ users' = IF code # "OK" THEN users
                ELSE [u \in DOMAIN users \cup {id} |->
                        IF u = id
                        THEN [username |-> username,
                              password_hash |-> hash_password(password),
                              is_admin |-> is_admin]
                        ELSE users[u]]
    /\ library_path' = IF code # "OK" THEN library_path
                       ELSE [library_path EXCEPT ![id] = lp]
    /\ admin_call' = Answer("create_user", caller, code)
    /\ UNCHANGED <<progress_vars, ensure_vars, argv, config, settings, dirs, files,
                   upload_logs, req>>

\* delete_user: refuses the caller's own id, then DELETE FROM users
delete_user(caller, user_id, db_ok) ==
    LET code == IF caller.user_id = user_id THEN "BAD_REQUEST"
                ELSE IF ~db_ok THEN "INTERNAL_SERVER_ERROR"
                ELSE "OK"
    IN
    /\ users' = IF code # "OK" THEN users
                ELSE [u \in DOMAIN users \ {user_id} |-> users[u]]
    /\ library_path' = IF code # "OK" THEN library_path
                       ELSE [library_path EXCEPT ![user_id] = None]
    /\ admin_call' = Answer("delete_user", caller, code)
    /\ UNCHANGED <<progress_vars, ensure_vars, argv, config, settings, dirs, files,
                   upload_logs, req>>

\* update_config: db.set_config(key, value); the key written here is
\* ferric_enabled
update_config(caller, value, db_ok) ==
    /\ settings' = IF db_ok THEN Some(value) ELSE settings
    /\ admin_call' = Answer("update_config", caller,
                            IF db_ok THEN "OK" ELSE "INTERNAL_SERVER_ERROR")
    /\ UNCHANGED <<progress_vars, ensure_vars, argv, config, library_path, dirs, files,
                   upload_logs, req, users>>

\* admin_change_user_password: the is_admin test, the length test,
\* get_user_by_id, then db.update_password
admin_change_user_password(caller, user_id, new_password, db_ok) ==
    LET code == IF ~caller.is_admin THEN "FORBIDDEN"
                ELSE IF Len(new_password) < 8 THEN "BAD_REQUEST"
                ELSE IF user_id \notin DOMAIN users THEN "NOT_FOUND"
                ELSE IF ~db_ok THEN "INTERNAL_SERVER_ERROR"
                ELSE "OK"
    IN
    /\ users' = IF code # "OK" THEN users
                ELSE [users EXCEPT ![user_id].password_hash = hash_password(new_password)]
    /\ admin_call' = Answer("admin_change_user_password", caller, code)
    /\ UNCHANGED <<progress_vars, ensure_vars, argv, config, settings, library_path,
                   dirs, files, upload_logs, req>>

\* update_user_library_path: the is_admin test, the tests on the path (a
\* path is held by its components, ".." is looked for as a component),
\* get_user_by_id, then db.update_library_path
update_user_library_path(caller, user_id, lp, db_ok) ==
    LET code == IF ~caller.is_admin THEN "FORBIDDEN"
                ELSE IF lp = <<>> THEN "BAD_REQUEST"
                ELSE IF \E i \in 1..Len(lp) : lp[i] = ".." THEN "BAD_REQUEST"
                ELSE IF user_id \notin DOMAIN users THEN "NOT_FOUND"
                ELSE IF ~db_ok THEN "INTERNAL_SERVER_ERROR"
                ELSE "OK"
    IN
    /\ library_path' = IF code # "OK" THEN library_path
                       ELSE [library_path EXCEPT ![user_id] = Some(lp)]
    /\ admin_call' = Answer("update_user_library_path", caller, code)
    /\ UNCHANGED <<progress_vars, ensure_vars, argv, config, settings, dirs, files,
                   upload_logs, req, users>>

\* the rows of the upload_logs table with their ids
LogRows(logs) == [i \in DOMAIN logs |-> [id |-> i, user_id |-> logs[i].user_id,
                                          status |-> logs[i].status]]

\* Database::get_upload_logs on the rows: WHERE user_id = ? if a user id is
\* given, ORDER BY created_at DESC (ids grow with created_at), LIMIT ?
db_get_upload_logs(rows, user_id, limit) ==
    LET sel == IF user_id = None THEN rows
               ELSE SelectSeq(rows, LAMBDA row : row.user_id = user_id[1])
        desc == [i \in 1..Len(sel) |-> sel[Len(sel) + 1 - i]]
    IN  SubSeq(desc, 1, IF Len(desc) < limit THEN Len(desc) ELSE limit)

\* the listing with no WHERE clause for any caller
get_upload_logs_unfiltered(caller, db_ok) ==
    /\ admin_call' =
            IF db_ok
            THEN [Answer("get_upload_logs", caller, "OK") EXCEPT
                    !.logs = Some(db_get_upload_logs(LogRows(upload_logs), None, LogLimit))]
            ELSE Answer("get_upload_logs", caller, "INTERNAL_SERVER_ERROR")
    /\ UNCHANGED <<progress_vars, ensure_vars, argv, handler_vars, users>>

\* get_upload_logs: all rows for an admin, the caller's rows for anyone else
get_upload_logs(caller, db_ok) ==
    /\ admin_call' =
            IF db_ok
            THEN [Answer("get_upload_logs", caller, "OK") EXCEPT
                    !.logs = Some(db_get_upload_logs(
                                LogRows(upload_logs),
                                IF caller.is_admin THEN None ELSE Some(caller.user_id),
                                LogLimit))]
            ELSE Answer("get_upload_logs", caller, "INTERNAL_SERVER_ERROR")
    /\ UNCHANGED <<progress_vars, ensure_vars, argv, handler_vars, users>>

\* The administration specification: the administrator u1 and the user u2,
\* each with a valid token; a job log that is empty, short, or longer than
\* the listing limit for each of the two users.
InitAdmin ==
    /\ config = [youtube_enabled |-> TRUE, spotify_enabled |-> TRUE, ferric_enabled |-> TRUE]
    /\ settings = None
    /\ library_path = [u \in Users |-> None]
    /\ files = {}
    /\ req = [r \in Reqs |-> IdleReq]
    /\ dirs = {MusicDir, TempDir}
    /\ ProgressIdle
    /\ EnsureIdle
    /\ ArgvIdle
    /\ AdminIdle
    /\ \E n \in {0, 3, 2 * LogLimit + 3} :
        upload_logs = [i \in 1..n |->
                        NewRow(IF i % 2 = 0 THEN "u1" ELSE "u2", "file", <<"multipart upload">>)]

NextAdmin ==
    \E caller \in {[user_id |-> "u1", is_admin |-> TRUE],
                   [user_id |-> "u2", is_admin |-> FALSE]} :
        \/ \E username \in {<<"a", "b">>, <<"b", "o", "b">>},
              password \in {Repeat("p", 7), Repeat("p", 8)},
              is_admin \in BOOLEAN, lp \in {None, Some(<<"lib">>)},
              insert \in {"ok", "duplicate", "error"} :
                create_user(caller, username, password, is_admin, lp, insert)
        \/ \E user_id \in Users, db_ok \in BOOLEAN : delete_user(caller, user_id, db_ok)
        \/ \E value \in {"true", "false"}, db_ok \in BOOLEAN :
                update_config(caller, value, db_ok)
        \/ \E user_id \in Users, new_password \in {Repeat("q", 7), Repeat("q", 8)},
              db_ok \in BOOLEAN :
                admin_change_user_password(caller, user_id, new_password, db_ok)
        \/ \E user_id \in Users, lp \in {<<>>, <<"lib">>, <<"..", "etc">>},
              db_ok \in BOOLEAN :
                update_user_library_path(caller, user_id, lp, db_ok)
        \/ \E db_ok \in BOOLEAN : get_upload_logs(caller, db_ok)

SpecAdmin == InitAdmin /\ [][NextAdmin]_vars

\* ======================================================================
\* Properties
\* ======================================================================
Terminal == {"completed", "failed"}

\* the job row of a request that has created one
RowOf(r) == upload_logs[req[r].log_id]

Returned(r) == req[r].pc = "done"

\* C1: in every reachable state every job row has completed_at set exactly
\* when its status is completed or failed, has error_message set exactly
\* when its status is failed, and so has both unset while pending or
\* processing.
C1_RowFieldsMatchStatus ==
    \A i \in DOMAIN upload_logs :
        LET row == upload_logs[i] IN
        /\ (row.completed_at # None) <=> (row.status \in Terminal)
        /\ (row.error_message # None) => (row.status = "failed")
        /\ (row.status = "failed") => (row.error_message # None)
        /\ (row.status \in {"pending", "processing"}) =>
                (row.completed_at = None /\ row.error_message = None)

\* a failed row next to a row that is still being processed
C1_Witness ==
    \E i, j \in DOMAIN upload_logs :
        /\ upload_logs[i].status = "failed"
        /\ upload_logs[i].error_message # None
        /\ upload_logs[j].status = "processing"

\* C2: every change of a row's status is pending -> processing,
\* processing -> completed or processing -> failed; a new row starts
\* pending and no row is ever dropped, so a job's statuses over time are a
\* prefix of pending, processing, completed or pending, processing, failed.
C2_ForwardOnly ==
    [][/\ Len(upload_logs') >= Len(upload_logs)
       /\ \A i \in DOMAIN upload_logs' :
            IF i \in DOMAIN upload_logs
            THEN \/ upload_logs'[i].status = upload_logs[i].status
                 \/ <<upload_logs[i].status, upload_logs'[i].status>> \in
                        {<<"pending", "processing">>,
                         <<"processing", "completed">>,
                         <<"processing", "failed">>}
            ELSE upload_logs'[i].status = "pending"]_vars

\* one job completed while the other one is only now being processed
C2_Witness ==
    \E i, j \in DOMAIN upload_logs :
        /\ i < j
        /\ upload_logs[i].status = "completed"
        /\ upload_logs[j].status = "processing"

\* C3: a remote request whose URL failed validation has been answered with
\* BadRequest, owns no job row and has spawned no process; the URL
\* "https://evil.com/x;rm -rf" fails validation.
C3_RejectedUrlLeavesNothing ==
    \A r \in Reqs :
        LET q == req[r] IN
        /\ (q.kind \in Remote /\ q.url = EvilUrl /\ q.url_ok # None) =>
                q.url_ok = Some(FALSE)
        /\ (q.kind \in Remote /\ q.url_ok = Some(FALSE)) =>
                /\ Returned(r)
                /\ q.resp[1].code = "BAD_REQUEST"
                /\ q.resp[1].error[1].text = "Invalid URL format"
                /\ q.log_id = 0
                /\ q.spawned = {}
                /\ \A i \in DOMAIN upload_logs :
                        ~(/\ upload_logs[i].user_id = q.user
                          /\ upload_logs[i].upload_type = q.kind
                          /\ upload_logs[i].source = q.url)

\* the evil URL was rejected while the other request's job exists
C3_Witness ==
    \E r \in Reqs :
        /\ req[r].url = EvilUrl
        /\ req[r].url_ok = Some(FALSE)
        /\ Returned(r)
        /\ Len(upload_logs) = 1

\* ---- C4: URL validation, stated on the characters of the URL
C4_IsSpace(c) == c = " " \/ c = "\n" \/ c = "\t"

\* the URL without the whitespace around it
C4_Trimmed(raw) ==
    LET inked == {i \in DOMAIN raw : ~C4_IsSpace(raw[i])}
        first == CHOOSE i \in inked : \A j \in inked : i <= j
        last  == CHOOSE i \in inked : \A j \in inked : j <= i
    IN  IF inked = {} THEN <<>> ELSE [k \in 1..(last - first + 1) |-> raw[first + k - 1]]

C4_Prefixes(kind) ==
    IF kind = "youtube" THEN {YT_WWW, YT_BARE, YT_SHORT, YT_MOBILE}
    ELSE {SP_TRACK \o <<>>, SP_ALBUM, SP_PLAYLIST, SP_ARTIST}

C4_Limit(kind) == IF kind = "youtube" THEN 200 ELSE 300

C4_Allowed(kind, raw) ==
    LET u == C4_Trimmed(raw) IN
    /\ \E p \in C4_Prefixes(kind) :
            /\ Len(p) <= Len(u)
            /\ \A i \in 1..Len(p) : u[i] = p[i]
    /\ \A i \in DOMAIN u : u[i] \notin {";", "|", Backtick, "$"}
    /\ \A i \in 1..(Len(u) - 1) : ~(u[i] = "&" /\ u[i + 1] = "&")
    /\ Len(u) <= C4_Limit(kind)

\* C4: a URL is accepted by the handler of its kind exactly when, trimmed,
\* it starts with an allow-listed prefix of that kind, holds none of
\* ; | backtick $ && || and is at most 200 (YouTube) or 300 (Spotify) long.
C4_AcceptsExactlyAllowed ==
    \A r \in Reqs :
        LET q == req[r] IN
        (q.kind \in Remote /\ q.url_ok # None) =>
            (q.url_ok[1] <=> C4_Allowed(q.kind, q.url))

\* https://youtu.be/abc was accepted, and the job got as far as its row
C4_Witness ==
    \E r \in Reqs :
        /\ req[r].kind = "youtube"
        /\ req[r].url = ValidYoutubeUrl
        /\ req[r].url_ok = Some(TRUE)
        /\ req[r].log_id # 0

\* ---- C5, C7: upload file names, stated on the characters of the name
\* the last component of the name, if it has one
C5_LastComponent(name) == path_file_name(name)

C5_Unsafe(name) ==
    LET n == C5_LastComponent(name) IN
    \/ n = None
    \/ \E i \in DOMAIN n[1] : n[1][i] \in {"/", "\\"}
    \/ \E i \in 1..(Len(n[1]) - 1) : n[1][i] = "." /\ n[1][i + 1] = "."

\* C5 (as claimed): once the handler has returned on a part whose name is
\* unsafe, that part is not in temp_dir and the job is failed with the
\* invalid-filename message (the case of a lost failure write set aside).
C5_UnsafeNameFailsJob ==
    \A r \in Reqs :
        LET q == req[r] IN
        (q.kind = "file" /\ Returned(r) /\ q.part # None /\ C5_Unsafe(q.part[1])) =>
            /\ ~q.resp[1].success
            /\ \A f \in files : f.by = r => f.name # q.part[1]
            /\ \/ q.unrecorded
               \/ /\ RowOf(r).status = "failed"
                  /\ RowOf(r).error_message[1].text =
                        "Invalid filename: path traversal attempt detected"

\* ---- C6
\* C6 (as claimed): a remote job that is answered with success is completed
\* and its persisted file_count is the number of files its own fetch wrote.
C6_CountIsWhatFetchWrote ==
    \A r \in Reqs :
        LET q == req[r] IN
        (q.kind \in Remote /\ Returned(r) /\ q.resp[1].success) =>
            /\ RowOf(r).status = "completed"
            /\ RowOf(r).file_count = q.fetched[1]

\* ---- C7
\* the text after the last '.', "" when there is no '.' or only a leading one
C7_Extension(n) ==
    LET dots == {i \in DOMAIN n : n[i] = "."}
        d == CHOOSE i \in dots : \A j \in dots : j <= i
    IN  IF dots = {} \/ dots = {1} THEN <<>> ELSE SubSeq(n, d + 1, Len(n))

C7_Disallowed(name) ==
    /\ ~C5_Unsafe(name)
    /\ C7_Extension(C5_LastComponent(name)[1]) \notin {<<"m", "p", "3">>, <<"f", "l", "a", "c">>}

\* C7 (as claimed): once the handler has returned on a part whose extension
\* is not allowed, the answer is BadRequest, the part is not in temp_dir
\* and the job is failed with a message that names the extension.
C7_DisallowedExtensionFailsJob ==
    \A r \in Reqs :
        LET q == req[r] IN
        (q.kind = "file" /\ q.part # None /\ C7_Disallowed(q.part[1])) =>
            /\ Returned(r)
            /\ q.resp[1].code = "BAD_REQUEST"
            /\ \A f \in files : f.by = r => f.name # C5_LastComponent(q.part[1])[1]
            /\ RowOf(r).status = "failed"
            /\ RowOf(r).error_message[1].text = "File type not allowed"
            /\ RowOf(r).error_message[1].detail = C7_Extension(C5_LastComponent(q.part[1])[1])

\* C7 (amended): the same, unless the write that records the failure itself
\* failed; then the row is left as it was, in processing.
C7_DisallowedExtensionRejected ==
    \A r \in Reqs :
        LET q == req[r] IN
        (q.kind = "file" /\ q.part # None /\ C7_Disallowed(q.part[1])) =>
            /\ Returned(r)
            /\ q.resp[1].code = "BAD_REQUEST"
            /\ q.resp[1].error[1].text = "File type not allowed"
            /\ \A f \in files : f.by = r => f.name # C5_LastComponent(q.part[1])[1]
            /\ IF q.unrecorded
               THEN RowOf(r).status = "processing"
               ELSE /\ RowOf(r).status = "failed"
                    /\ RowOf(r).error_message[1].text = "File type not allowed"
                    /\ RowOf(r).error_message[1].detail =
                            C7_Extension(C5_LastComponent(q.part[1])[1])
                    /\ RowOf(r).file_count = Len(q.uploaded_files)

\* a.exe was rejected after an accepted part, and the failure is on the row
C7_Witness ==
    \E r \in Reqs :
        /\ req[r].part = Some(NameExe)
        /\ Returned(r)
        /\ Len(req[r].uploaded_files) = 1
        /\ RowOf(r).status = "failed"

\* ---- C8
\* C8 (as claimed): the count a remote job takes is the number of files its
\* own fetch wrote, whatever the job of the other user does meanwhile.
C8_CountIgnoresOtherUsers ==
    \A r, o \in Reqs :
        LET q == req[r] IN
        (/\ q.kind \in Remote /\ q.pc \in {"process", "move", "set_completed"}
         /\ req[o].user # "none" /\ req[o].user # q.user) =>
            q.file_count = q.fetched[1]

\* ---- C9
\* C9 (as claimed): once the handler of a job has returned, no file that the
\* job wrote is left in its temp_dir.
C9_TempDirDrained ==
    \A r \in Reqs :
        (Returned(r) /\ req[r].log_id # 0) =>
            \A f \in files : ~(f.dir = req[r].temp_dir /\ f.by = r)

\* ---- C10
ProcessOrStorageCauses == {"field", "bytes", "create", "write", "fetch", "process"}

\* C10 (as claimed): when a handler has returned an error caused by a
\* process or storage error after its job row was created, the row is failed
\* with that error's message, unless the write recording it failed.
C10_FailureRecordedBeforeResponse ==
    \A r \in Reqs :
        LET q == req[r] IN
        (Returned(r) /\ q.log_id # 0 /\ q.cause \in ProcessOrStorageCauses) =>
            \/ q.unrecorded
            \/ /\ RowOf(r).status = "failed"
               /\ RowOf(r).error_message = q.resp[1].error

\* ---- C11
\* C11 (as claimed): a success answer is given only when the fetch (remote
\* jobs) and the tagging/move step succeeded and the row is completed; a
\* failure of the tagging/move step gives an error answer and a failed row.
C11_NoPartialSuccess ==
    \A r \in Reqs :
        LET q == req[r] IN
        Returned(r) =>
            /\ q.resp[1].success =>
                    /\ RowOf(r).status = "completed"
                    /\ q.cause = "none" /\ q.err = None
                    /\ q.kind \in Remote => q.fetched # None
            /\ q.cause = "process" =>
                    /\ ~q.resp[1].success
                    /\ RowOf(r).status = "failed"

\* C11 (amended): the same, except that the row of a job whose tagging/move
\* step failed is left in processing when the write recording the failure
\* itself fails; the answer is an error all the same.
C11_SuccessOnlyWhenAllSucceeded ==
    \A r \in Reqs :
        LET q == req[r] IN
        Returned(r) =>
            /\ q.resp[1].success =>
                    /\ q.resp[1].code = "OK"
                    /\ RowOf(r).status = "completed"
                    /\ q.cause = "none" /\ q.err = None
                    /\ q.kind \in Remote => q.fetched # None
            /\ q.cause = "process" =>
                    /\ ~q.resp[1].success
                    /\ q.resp[1].code = "INTERNAL_SERVER_ERROR"
                    /\ q.resp[1].error[1].text = "Processing failed"
                    /\ IF q.unrecorded
                       THEN RowOf(r).status = "processing"
                       ELSE /\ RowOf(r).status = "failed"
                            /\ RowOf(r).error_message = q.resp[1].error

\* the fetch wrote a file, the tagging tool then failed; the job is failed
\* and the file is still in temp_dir
C11_Witness ==
    \E r \in Reqs :
        /\ Returned(r)
        /\ req[r].kind \in Remote
        /\ req[r].fetched = Some(1)
        /\ req[r].cause = "process"
        /\ RowOf(r).status = "failed"
        /\ \E f \in files : f.dir = req[r].temp_dir /\ f.by = r

\* ---- C12, C13, C14: directory resolution
\* the components of a path that count when two paths are compared
C12_Components(p) ==
    LET keep == {i \in DOMAIN p : p[i] \notin {"", "."}}
        nth(k) == CHOOSE i \in keep : Cardinality({j \in keep : j <= i}) = k
    IN  [k \in 1..Cardinality(keep) |-> p[nth(k)]]

\* the request has resolved its directories
Resolved(r) == req[r].music_dir # <<>>

\* the library_path of the user of a request
OverrideOf(r) == library_path[req[r].user]

\* C12: a request of a user whose override equals the global music root
\* resolves to (root/default, global temp_dir); so the music directory is
\* not the root and the temp directory is neither root/tmp nor under
\* root/default.
C12_RootOverrideGetsDefault ==
    \A r \in Reqs :
        (/\ Resolved(r) /\ OverrideOf(r) # None
         /\ C12_Components(OverrideOf(r)[1]) = <<"music">>) =>
            /\ req[r].music_dir = <<"music", "default">>
            /\ req[r].temp_dir = <<"music_upload">>
            /\ req[r].music_dir # <<"music">>
            /\ req[r].temp_dir # <<"music", "tmp">>
            /\ ~(/\ Len(req[r].temp_dir) >= 2
                 /\ req[r].temp_dir[1] = "music" /\ req[r].temp_dir[2] = "default")

\* the override "music/" (the root with a trailing separator) was resolved
\* and the directories exist
C12_Witness ==
    \E r \in Reqs :
        /\ Resolved(r)
        /\ OverrideOf(r) = Some(<<"music", "">>)
        /\ req[r].music_dir = <<"music", "default">>
        /\ req[r].music_dir \in dirs
        /\ req[r].log_id # 0

\* C13: a request of a user whose override differs from the global music
\* root resolves to (override, override/tmp).
C13_OtherOverrideIsUsed ==
    \A r \in Reqs :
        (/\ Resolved(r) /\ OverrideOf(r) # None
         /\ C12_Components(OverrideOf(r)[1]) # <<"music">>) =>
            /\ req[r].music_dir = C12_Components(OverrideOf(r)[1])
            /\ req[r].temp_dir = C12_Components(OverrideOf(r)[1]) \o <<"tmp">>

\* an override below the root was resolved and its temp directory created
C13_Witness ==
    \E r \in Reqs :
        /\ Resolved(r)
        /\ OverrideOf(r) = Some(<<"music", "sub">>)
        /\ req[r].temp_dir = <<"music", "sub", "tmp">>
        /\ req[r].temp_dir \in dirs

\* C14: a request of a user without override resolves to the global pair,
\* and two requests whose users have the same override resolve to the same
\* pair.
C14_NoOverrideIsGlobal ==
    /\ \A r \in Reqs :
            (Resolved(r) /\ OverrideOf(r) = None) =>
                req[r].music_dir = <<"music">> /\ req[r].temp_dir = <<"music_upload">>
    /\ \A r, o \in Reqs :
            (Resolved(r) /\ Resolved(o) /\ OverrideOf(r) = OverrideOf(o)) =>
                req[r].music_dir = req[o].music_dir /\ req[r].temp_dir = req[o].temp_dir

\* both requests, of users without override, have resolved their directories
C14_Witness ==
    \A r \in Reqs : Resolved(r) /\ OverrideOf(r) = None /\ req[r].log_id # 0

\* ---- C15
\* C15: a call of ensure_directory_exists on a path for which an earlier
\* call returned Ok, and a call that finds the path created by a concurrent
\* call after it looked, return Ok and create nothing.
C15_EnsureIsIdempotent ==
    \A r \in Reqs :
        LET e == ensure[r] IN
        (e.pc = "done" /\ (e.again \/ e.raced)) =>
            /\ e.result = "Ok"
            /\ e.created = {}
            /\ e.path \in dirs

\* two calls on the same missing path went past the exists test; one
\* created the directory and the other returned after it
C15_Witness ==
    \E r, o \in Reqs :
        /\ r # o
        /\ ensure[r].path = <<"lib", "tmp">> /\ ensure[o].path = <<"lib", "tmp">>
        /\ ensure[r].pc = "done" /\ ensure[r].created # {}
        /\ ensure[o].pc = "done" /\ ensure[o].raced

\* ---- C16
\* C16: a call of send_progress for a session id that is not in the map, or
\* whose channel holds its full capacity of messages, leaves the map and
\* every channel as they were; and send_progress can take its step in every
\* state, whatever the map and the channels hold.
C16_SendDropsSilently ==
    /\ [](progress_call.n < MaxProgressCalls =>
            \A session_id \in Sessions, message \in Messages :
                ENABLED send_progress(session_id, message))
    /\ [][(/\ progress_call'.n # progress_call.n
           /\ progress_call'.op = "send_progress"
           /\ LET sender == progress_store[progress_call'.session_id] IN
              \/ sender = None
              \/ Len(channels[sender[1]].queue) >= 100)
          => (progress_store' = progress_store /\ channels' = channels)]_vars

\* a message was sent to a session whose channel is full while another
\* session is registered too; the message was dropped
C16_Witness ==
    /\ progress_call.op = "send_progress"
    /\ progress_call.outcome = "full"
    /\ progress_store["s1"] # None /\ progress_store["s2"] # None
    /\ Len(channels[progress_store[progress_call.session_id][1]].queue) = 100

\* ---- C17, C18, C19: the argument vectors
\* the vector that was built, and what it was built from
Built(tool) == argv.tool = tool /\ argv.args # None

\* the eight arguments every yt-dlp vector starts with
C17_FixedFlags ==
    << <<"--no-warnings">>, <<"--extract-audio">>, <<"--audio-format">>,
       argv.cfg.audio_format, <<"--output">>,
       path_display(argv.temp_dir) \o <<"/%(title)s.%(ext)s">>,
       <<"--no-playlist">>, <<"--ignore-no-formats-error">> >>

\* C17: the yt-dlp vector ends with the URL; the extra_args stand, in their
\* order, right before it; whatever stands before them is a flag of the
\* builder: the eight fixed arguments, then --format and --extractor-args
\* pairs.
C17_ExtraArgsThenUrlLast ==
    Built("yt-dlp") =>
        LET a == argv.args[1]
            x == argv.cfg.extra_args
            n == Len(a)
            own == n - Len(x) - 1
        IN  /\ n >= 1 /\ a[n] = argv.url
            /\ own >= 8
            /\ \A i \in 1..Len(x) : a[own + i] = x[i]
            /\ \A i \in 1..8 : a[i] = C17_FixedFlags[i]
            /\ own \in {8, 10, 12}
            /\ \A i \in 9..own :
                    (i % 2 = 1) => a[i] \in {<<"--format">>, <<"--extractor-args">>}

\* a vector with both optional pairs and two extra arguments was built
C17_Witness ==
    /\ Built("yt-dlp")
    /\ Len(argv.cfg.extra_args) = 2
    /\ argv.cfg.extra_args[1] # argv.cfg.extra_args[2]
    /\ Len(argv.args[1]) = 15

\* C18: the spotdl vector is "download", the URL, "--output", the pattern
\* temp_dir/{artist} - {title}.{output-ext}, "--format", the configured
\* audio format: six arguments.
C18_SpotdlVector ==
    Built("spotdl") =>
        LET a == argv.args[1] IN
        /\ Len(a) = 6
        /\ a[1] = <<"download">>
        /\ a[2] = argv.url
        /\ a[3] = <<"--output">>
        /\ a[4] = path_display(argv.temp_dir) \o <<"/{artist} - {title}.{output-ext}">>
        /\ a[5] = <<"--format">>
        /\ a[6] = argv.cfg.audio_format

\* the vector for a user's own temp directory lib/tmp was built
C18_Witness ==
    /\ Built("spotdl")
    /\ argv.temp_dir = <<"lib", "tmp">>
    /\ argv.url = ValidSpotifyUrl
    /\ argv.args[1][4] = <<"lib", "/", "tmp", "/{artist} - {title}.{output-ext}">>

\* the pair <<flag, value>> stands among the builder's own arguments of the
\* yt-dlp vector (those before the extra_args)
C19_HasPair(flag, value) ==
    LET a == argv.args[1]
        own == Len(a) - Len(argv.cfg.extra_args) - 1
    IN  \E i \in 1..(own - 1) : a[i] = flag /\ a[i + 1] = value

C19_HasFlag(flag) ==
    LET a == argv.args[1]
        own == Len(a) - Len(argv.cfg.extra_args) - 1
    IN  \E i \in 1..own : a[i] = flag

\* C19: among the builder's own arguments of the yt-dlp vector, --format is
\* there exactly when the trimmed format selector is not empty, and then
\* with the trimmed selector; --extractor-args is there exactly when a player
\* client is configured and not empty after trimming, and then with
\* youtube:player_client= and the trimmed client; the default client is web.
C19_OptionalPairs ==
    Built("yt-dlp") =>
        LET selector == C4_Trimmed(argv.cfg.format_selector)
            client == IF argv.cfg.player_client = None THEN <<>>
                      ELSE C4_Trimmed(argv.cfg.player_client[1])
        IN  /\ C19_HasFlag(<<"--format">>) <=> selector # <<>>
            /\ selector # <<>> => C19_HasPair(<<"--format">>, selector)
            /\ C19_HasFlag(<<"--extractor-args">>) <=> client # <<>>
            /\ client # <<>> =>
                    C19_HasPair(<<"--extractor-args">>, <<"youtube:player_client=">> \o client)
            /\ argv.cfg.player_client = DefaultPlayerClient =>
                    C19_HasPair(<<"--extractor-args">>, <<"youtube:player_client=", "w", "e", "b">>)

\* a vector was built from a selector and a client wrapped in whitespace
C19_Witness ==
    /\ Built("yt-dlp")
    /\ argv.cfg.format_selector = <<" ", "1", "4", "0", "\n">>
    /\ argv.cfg.player_client = Some(<<" ", "i", "o", "s", " ">>)
    /\ argv.args[1][10] = <<"1", "4", "0">>
    /\ argv.args[1][12] = <<"youtube:player_client=", "i", "o", "s">>

\* ---- C20
\* C20: a remote request for a kind whose switch is off is answered with
\* Forbidden and has done nothing else: its directories are not resolved and
\* none is created, there is no job row and no file, no progress message
\* was sent and no process was spawned.
C20_DisabledKindDoesNothing ==
    \A r \in Reqs :
        LET q == req[r]
            off == \/ q.kind = "youtube" /\ ~config.youtube_enabled
                   \/ q.kind = "spotify" /\ ~config.spotify_enabled
        IN  off =>
                /\ Returned(r)
                /\ q.resp[1].code = "FORBIDDEN"
                /\ ~q.resp[1].success
                /\ q.music_dir = <<>> /\ q.temp_dir = <<>>
                /\ q.url_ok = None
                /\ q.log_id = 0
                /\ q.progress_sent = 0
                /\ q.spawned = {}
                /\ dirs = {<<"music">>, <<"music_upload">>}
                /\ upload_logs = <<>>
                /\ files = {}
                /\ progress_store = [s \in Sessions |-> None] /\ channels = <<>>

\* a Spotify request with a valid URL, of a user whose own directories do
\* not exist yet, was refused while YouTube is switched on
C20_Witness ==
    \E r \in Reqs :
        /\ req[r].kind = "spotify"
        /\ req[r].url = ValidSpotifyUrl
        /\ config.youtube_enabled /\ ~config.spotify_enabled
        /\ library_path[req[r].user] = Some(<<"lib">>)
        /\ Returned(r)
        /\ req[r].resp[1].code = "FORBIDDEN"

\* ---- C21
\* the tagging/move step of a request has started
ProcessingStarted(r) ==
    \/ req[r].pc \in {"process", "move", "set_completed"}
    \/ "ferric" \in req[r].spawned
    \/ req[r].cause = "process"
    \/ req[r].unregister # "none"
    \/ (Returned(r) /\ req[r].resp[1].success)

\* the part of C21 that holds as claimed: the tagging/move step of a remote
\* job starts only after its fetch tool has exited successfully; a failed
\* fetch ends the handler with the error "Download failed" carrying the
\* tool's error text, and the tagging tool is not run for the job.
C21_Sequential(r) ==
    LET q == req[r] IN
    /\ ProcessingStarted(r) =>
            (q.fetched # None /\ fetch_tool(q.kind) \in q.spawned)
    /\ q.cause = "fetch" =>
            /\ Returned(r)
            /\ q.fetched = None
            /\ ~q.resp[1].success
            /\ q.resp[1].code = "INTERNAL_SERVER_ERROR"
            /\ q.resp[1].error = Some(Msg("Download failed", <<fetch_tool(q.kind)>>))
            /\ ~ProcessingStarted(r)

\* C21 (as claimed): within a remote job the tagging/move step starts only
\* after the fetch tool exited successfully; when the fetch fails the job
\* is failed with the captured error text, an error is returned and the
\* tagging tool is never run.
C21_FetchFailureFailsJob ==
    \A r \in Reqs :
        req[r].kind \in Remote =>
            /\ C21_Sequential(r)
            /\ req[r].cause = "fetch" =>
                    /\ RowOf(r).status = "failed"
                    /\ RowOf(r).error_message = req[r].resp[1].error

\* C21 (amended): the same, except that the row of a job whose fetch failed
\* is left in processing when the write recording the failure itself fails.
C21_FetchBeforeTagging ==
    \A r \in Reqs :
        req[r].kind \in Remote =>
            /\ C21_Sequential(r)
            /\ req[r].cause = "fetch" =>
                    IF req[r].unrecorded
                    THEN RowOf(r).status = "processing"
                    ELSE /\ RowOf(r).status = "failed"
                         /\ RowOf(r).error_message = req[r].resp[1].error

\* one job failed at its fetch and is recorded so, while the tagging tool
\* runs for another whose fetch succeeded
C21_Witness ==
    \E r, o \in Reqs :
        /\ req[r].cause = "fetch" /\ Returned(r)
        /\ RowOf(r).status = "failed"
        /\ req[o].kind \in Remote
        /\ "ferric" \in req[o].spawned /\ req[o].fetched # None

\* ---- C22
\* the request was answered with a validation error: a bad URL, a bad file
\* name, a disallowed extension or an oversize part
ValidationFailed(r) ==
    /\ Returned(r)
    /\ req[r].resp[1].code = "BAD_REQUEST"
    /\ req[r].resp[1].error[1].text \in
            {"Invalid URL format",
             "Invalid filename: path traversal attempt detected",
             "File type not allowed", "File too large"}

\* C22 (as claimed): when a validation failure is returned, the request has
\* created no directory, written no file and inserted no job row.  Read
\* where one request runs alone from the initial state, so that whatever
\* was created was created for it.
C22_ValidationBeforeAnyMutation ==
    \A r \in Reqs :
        ValidationFailed(r) =>
            /\ dirs = {MusicDir, TempDir}
            /\ files = {}
            /\ req[r].wrote = {}
            /\ upload_logs = <<>>
            /\ req[r].log_id = 0

\* ---- C23
\* C23 (as claimed): for a remote job of either kind whose fetch succeeded
\* and whose processing step has chosen its branch, the tagging tool has
\* been run exactly when the effective organizer flag is true.
C23_TaggingIffFlag ==
    \A r \in Reqs :
        LET q == req[r] IN
        (q.kind \in Remote /\ q.fetched # None
            /\ q.pc \in {"move", "set_completed", "done"}) =>
            ("ferric" \in q.spawned) <=> get_ferric_enabled(config, settings)

\* ---- C24
\* the handler left through the ? of a processing or completed write
UpdateAborted(r) ==
    /\ Returned(r)
    /\ req[r].resp[1].error = Some(Msg("Failed to update log", <<>>))

\* the state part of C24
C24_WriteFailureHandled ==
    \A r \in Reqs :
        LET q == req[r] IN
        /\ (Returned(r) /\ q.unrecorded) =>
                /\ q.err # None
                /\ q.resp[1].code = q.err[1].code
                /\ q.resp[1].error = Some(q.err[1].msg)
                /\ ~q.resp[1].success
                /\ RowOf(r).status = "processing"
        /\ UpdateAborted(r) =>
                /\ q.resp[1].code = "INTERNAL_SERVER_ERROR"
                /\ ~q.resp[1].success
                /\ q.err = None /\ ~q.unrecorded
                /\ q.unregister = "none"
                /\ RowOf(r).status \in {"pending", "processing"}
                /\ RowOf(r).status = "pending" =>
                        /\ q.spawned = {} /\ q.wrote = {}
                        /\ q.fields = 0 /\ q.fetched = None
                        /\ \A i \in DOMAIN q.progress_log :
                                q.progress_log[i].message = "Starting Spotify download..."
                /\ \A i \in DOMAIN q.progress_log :
                        q.progress_log[i].message # "Complete!"

\* C24: a failure of the write that records a failure is swallowed: the
\* handler returns the answer of the original failure and the row stays
\* as it was; a failure of the write that sets processing or completed
\* makes the handler return an internal error, and from then on the
\* request takes no step and its row is not written again.
C24_FailedWriteByPath ==
    /\ []C24_WriteFailureHandled
    /\ [][\A r \in Reqs :
            UpdateAborted(r) =>
                /\ req'[r] = req[r]
                /\ upload_logs'[req[r].log_id] = upload_logs[req[r].log_id]]_vars

\* one request whose failure could not be recorded and still got its 400,
\* next to one aborted by the failure of its completed write
C24_Witness ==
    \E r, o \in Reqs :
        /\ Returned(r) /\ req[r].unrecorded
        /\ req[r].resp[1].code = "BAD_REQUEST"
        /\ UpdateAborted(o)
        /\ req[o].fetched # None
        /\ RowOf(o).status = "processing"

\* ---- C25
\* C25 (as claimed, for the handler that reports progress): a Spotify job
\* whose URL passed validation has a session id of its own, its first
\* progress message is the "starting" one, and every progress message it
\* has sent found its session id in the map.
C25_RegisteredBeforeProgress ==
    \A r \in Reqs :
        LET q == req[r] IN
        (q.kind = "spotify" /\ q.url_ok = Some(TRUE)) =>
            /\ q.session_id # None
            /\ q.progress_log # <<>>
            /\ q.progress_log[1].message = "Starting Spotify download..."
            /\ \A i \in DOMAIN q.progress_log : q.progress_log[i].found

\* ---- C26
\* the messages a job sends while it is still running
C26_RunningMessages ==
    {"Starting Spotify download...", "Downloading from Spotify...",
     "Downloaded file(s), now processing..."}

\* C26 (as claimed, for the handler that reports progress): once the
\* handler of a Spotify job has returned with the job completed or failed,
\* the last progress message of the job is a final one, sent after the
\* running ones, and the unregister of its session id has been scheduled
\* or has run.
C26_FinalMessageThenUnregister ==
    \A r \in Reqs :
        LET q == req[r] IN
        (q.kind = "spotify" /\ Returned(r) /\ q.log_id # 0
            /\ RowOf(r).status \in Terminal) =>
            /\ q.progress_log # <<>>
            /\ q.progress_log[Len(q.progress_log)].message \notin C26_RunningMessages
            /\ q.unregister \in {"scheduled", "done"}

\* ---- C27
\* the configured maximum in bytes, as the claim states it
C27_Limit == max_file_size_mb * 1024 * 1024

\* the handler has read the bytes of a part and found them over the limit
C27_Oversize(r) == req[r].data_len # None /\ req[r].data_len[1] > C27_Limit

\* what holds of a request in every state: an oversize part ends it with
\* BadRequest and the message "File too large" with the size in MB and the
\* limit, and the message is given for no part within the limit.
C27_SizeChecked(r) ==
    LET q == req[r] IN
    /\ C27_Oversize(r) =>
            /\ Returned(r)
            /\ q.resp[1].code = "BAD_REQUEST"
            /\ q.resp[1].error =
                    Some(MsgN("File too large", <<>>,
                              <<(q.data_len[1] \div 1024) \div 1024, max_file_size_mb>>))
            /\ q.file_count = Len(q.uploaded_files)
    /\ (Returned(r) /\ q.resp[1].error # None
            /\ q.resp[1].error[1].text = "File too large") => C27_Oversize(r)

\* the step that reads a part writes to disk only when the part is within
\* the limit, and a part within the limit is not refused for its size
C27_WriteOnlyWithinLimit(r) ==
    (req[r].pc = "read_part" /\ req'[r].pc # "read_part") =>
        /\ files' # files => req'[r].data_len[1] <= C27_Limit
        /\ C27_Oversize(r)' => (files' = files /\ req'[r].wrote = req[r].wrote)
        /\ req'[r].pc = "next_field" =>
                /\ req'[r].data_len[1] <= C27_Limit
                /\ \E f \in files' : /\ f.dir = req[r].temp_dir
                                       /\ f.name = req[r].sanitized_name /\ f.by = r

C28_EndsEmpty(r) ==
    /\ req[r].pc = "next_field"
    /\ req[r].uploaded_files = <<>>
    /\ req'[r] # req[r]
    /\ req'[r].fields = req[r].fields
    /\ req'[r].cause # "field"

\* the answer and the absence of processing in that step
C28_Rejected(r) ==
    /\ req'[r].pc = "done"
    /\ req'[r].resp[1].code = "BAD_REQUEST"
    /\ req'[r].resp[1].error = Some(Msg("No files uploaded", <<>>))
    /\ "ferric" \notin req'[r].spawned
    /\ req'[r].todo = <<>>
    /\ files' = files

\* C28 (as claimed): when an upload ends with no accepted part, the job is
\* set to failed with file_count 0 and "No files uploaded", BadRequest is
\* returned and neither the tagging tool nor the direct move is run.
C28_NoFilesFailsJob ==
    [][\A r \in Reqs :
        C28_EndsEmpty(r) =>
            /\ C28_Rejected(r)
            /\ upload_logs'[req[r].log_id].status = "failed"
            /\ upload_logs'[req[r].log_id].file_count = 0
            /\ upload_logs'[req[r].log_id].error_message = Some(Msg("No files uploaded", <<>>))]_vars

\* C28 (amended): the same, except that the job stays in processing when
\* the write recording the failure itself fails; and a request that has
\* returned does nothing more.
C28_NoFilesRejected ==
    [][\A r \in Reqs :
        /\ C28_EndsEmpty(r) =>
                /\ C28_Rejected(r)
                /\ IF req'[r].unrecorded
                   THEN upload_logs' = upload_logs
                   ELSE /\ upload_logs'[req[r].log_id].status = "failed"
                        /\ upload_logs'[req[r].log_id].file_count = 0
                        /\ upload_logs'[req[r].log_id].error_message =
                                Some(Msg("No files uploaded", <<>>))
        /\ (Returned(r) /\ req[r].kind = "file") => req'[r] = req[r]]_vars

\* two parts without a file name were skipped, then the upload was refused
\* and the job failed with no file counted
C28_Witness ==
    \E r \in Reqs :
        /\ req[r].kind = "file" /\ Returned(r)
        /\ req[r].fields = 2 /\ req[r].uploaded_files = <<>>
        /\ req[r].resp[1].error = Some(Msg("No files uploaded", <<>>))
        /\ RowOf(r).status = "failed" /\ RowOf(r).file_count = 0

\* ---- C29
\* the part r is at violates the filename, extension or size validation
C29_PartViolates(r) ==
    /\ req[r].kind = "file"
    /\ \/ /\ req[r].part # None
          /\ (C5_Unsafe(req[r].part[1]) \/ C7_Disallowed(req[r].part[1]))
       \/ C27_Oversize(r)

\* C29 (as claimed): the first part of an upload that violates the
\* filename, extension or size validation ends the request at once: an
\* error is returned, the job is failed with the message of that answer
\* and the number of parts accepted before it, no later part has been
\* read, and the tagging/move step has not run (the case of a lost
\* failure write set aside).
C29_FirstViolationAborts ==
    \A r \in Reqs :
        LET q == req[r] IN
        C29_PartViolates(r) =>
            /\ Returned(r)
            /\ ~q.resp[1].success
            /\ q.fields = Len(q.uploaded_files) + 1
            /\ "ferric" \notin q.spawned /\ q.todo = <<>>
            /\ \/ q.unrecorded
               \/ /\ RowOf(r).status = "failed"
                  /\ RowOf(r).error_message = q.resp[1].error
                  /\ RowOf(r).file_count = Len(q.uploaded_files)

HoldsGuard(t) == t \in lock.readers \/ lock.writer = Some(t)

\* C31: a task holds a guard of the session-map lock only inside a call of
\* send_progress, register_session or unregister_session, never while it
\* awaits an external process; so the guard another task awaits is granted
\* whenever that other task is the only one that could hold one, however
\* long the first stays blocked on its tool.
C31_NoLockAcrossProcess ==
    /\ [](\A t \in Reqs :
            HoldsGuard(t) <=>
                req[t].pc \in {"send_held", "register_held", "unregister_held"})
    /\ [](\A t, o \in Reqs :
            (/\ t # o /\ req[t].pc = "tool_wait"
             /\ req[o].pc \in {"send_wait", "register_wait", "unregister_wait"})
                => ENABLED guard_acquire(o))

\* one job is blocked on its tagging tool while the other, whose session is
\* registered, holds the read guard for a send
C31_Witness ==
    \E t, o \in Reqs :
        /\ req[t].pc = "tool_wait" /\ req[t].progress_sent = 3
        /\ req[o].pc = "send_held" /\ o \in lock.readers
        /\ progress_store[req[o].session_id[1]] # None

\* ---- C32
\* the job is in, or has been through, the direct-move branch
InDirectMove(r) ==
    /\ req[r].kind \in {"spotify", "file"}
    /\ ~get_ferric_enabled(config, settings)
    /\ ProcessingStarted(r)

\* C32 (as claimed): while a job is in the direct-move branch and after
\* it, whether the branch succeeded or failed part-way, every file the job
\* brought into temp_dir is in temp_dir or in music_dir.
C32_NoFileLost ==
    \A r \in Reqs :
        InDirectMove(r) =>
            \A n \in req[r].wrote :
                n \in names_in(files, req[r].temp_dir) \cup names_in(files, req[r].music_dir)

\* ---- C33
\* C33 (as claimed, with the requests that a failed store write ended set
\* aside): a handler that has returned after creating its job row has
\* left the row completed or failed.
C33_ReturnedJobIsTerminal ==
    \A r \in Reqs :
        (Returned(r) /\ req[r].log_id # 0
            /\ ~req[r].unrecorded /\ ~UpdateAborted(r)) =>
            RowOf(r).status \in Terminal

\* ---- C34
\* C34 (as claimed): in every step of the count, of the tagging or move and
\* of the cleanup of a job, the files that are removed or copied are files
\* the job itself wrote, and the count taken is the number of the job's own
\* files in temp_dir.
C34_OwnFilesOnly ==
    [][\A r \in Reqs :
        (req[r].pc \in {"count", "process", "move"} /\ req'[r] # req[r]) =>
            /\ \A f \in files \ files' : f.by = r
            /\ \A f \in files' \ files : f.by = r
            /\ req[r].pc = "count" =>
                    req'[r].file_count =
                        Cardinality({f \in in_dir(files, req[r].temp_dir) : f.by = r})]_vars

\* ---- C35
\* C35 (as claimed): the URL handed to the fetch tool, and the source stored
\* in the job row, is exactly the string the prefix, metacharacter and
\* length checks looked at, which is the trimmed URL.
C35_ValidatedStringPassed ==
    \A r \in Reqs :
        LET q == req[r] IN
        q.kind \in Remote =>
            /\ q.tool_url # None => q.tool_url[1] = trim(q.url)
            /\ q.log_id # 0 => RowOf(r).source = trim(q.url)

\* ---- C36
\* an upload whose parts were all accepted (the part loop ended with a
\* non-empty uploaded_files) and whose handler has returned, with the
\* organizer disabled, every store write done and no file-system call
\* failing on a file that was there
C36_AllAcceptedNoFault(r) ==
    LET q == req[r] IN
    /\ q.kind = "file"
    /\ ~get_ferric_enabled(config, settings)
    /\ ProcessingStarted(r)
    /\ Returned(r)
    /\ ~q.unrecorded
    /\ ~UpdateAborted(r)
    /\ ~(q.resp[1].error # None /\ q.resp[1].error[1].detail = <<"io error">>)

\* C36 (as claimed): with the organizer disabled, an upload whose parts all
\* pass validation ends with the job completed, file_count equal to the
\* number of accepted parts and a success response, also when sanitized
\* filenames coincide.
C36_AcceptedUploadCompletes ==
    \A r \in Reqs :
        C36_AllAcceptedNoFault(r) =>
            /\ req[r].resp[1].success
            /\ RowOf(r).status = "completed"
            /\ RowOf(r).file_count = Len(req[r].uploaded_files)

\* the same for uploads whose accepted names are pairwise different
C36_DistinctNamesComplete ==
    \A r \in Reqs :
        (/\ C36_AllAcceptedNoFault(r)
         /\ \A i, j \in 1..Len(req[r].uploaded_files) :
                req[r].uploaded_files[i] = req[r].uploaded_files[j] => i = j) =>
            /\ req[r].resp[1].success
            /\ RowOf(r).status = "completed"
            /\ RowOf(r).file_count = Len(req[r].uploaded_files)

\* ---- C37
\* the state-changing administration operations
C37_Operations ==
    {"create_user", "delete_user", "update_config", "admin_change_user_password",
     "update_user_library_path"}

\* C37 (as claimed): every call of a state-changing administration operation
\* by a caller whose token is not admin is answered with an error and
\* leaves the users table (library paths included) and the config table
\* unchanged.
C37_NonAdminRejected ==
    [][(/\ admin_call'.op \in C37_Operations
        /\ ~admin_call'.is_admin
        /\ <<users, library_path, settings, admin_call>>' #
                <<users, library_path, settings, admin_call>>) =>
            /\ admin_call'.code # "OK"
            /\ <<users, library_path, settings>>' = <<users, library_path, settings>>]_vars

\* the two operations that test is_admin themselves do reject such a caller
C37_CheckedOperationsReject ==
    [][(/\ admin_call'.op \in {"admin_change_user_password", "update_user_library_path"}
        /\ ~admin_call'.is_admin
        /\ <<users, library_path, settings, admin_call>>' #
                <<users, library_path, settings, admin_call>>) =>
            /\ admin_call'.code = "FORBIDDEN"
            /\ <<users, library_path, settings>>' = <<users, library_path, settings>>]_vars

\* ---- C38
\* the ids of the newest LogLimit rows among the rows with ids in S
C38_Newest(S) == {i \in S : Cardinality({j \in S : j > i}) < LogLimit}

\* C38: a successful listing by a caller who is not admin holds only rows
\* of the caller, at most 100 of them, newest first: exactly the newest rows
\* of the caller, whatever rows other users have; a listing by an admin
\* holds the newest rows of all users.
C38_ListingScopedToCaller ==
    (admin_call.op = "get_upload_logs" /\ admin_call.code = "OK") =>
        LET logs == admin_call.logs[1]
            all == DOMAIN upload_logs
            own == {i \in all : upload_logs[i].user_id = admin_call.caller}
            ids == {logs[i].id : i \in 1..Len(logs)}
        IN
        /\ Len(logs) <= LogLimit
        /\ \A i \in 1..Len(logs) : logs[i].user_id = upload_logs[logs[i].id].user_id
        /\ \A i, j \in 1..Len(logs) : i < j => logs[i].id > logs[j].id
        /\ IF admin_call.is_admin
           THEN ids = C38_Newest(all)
           ELSE /\ \A i \in 1..Len(logs) : logs[i].user_id = admin_call.caller
                /\ ids = C38_Newest(own)

\* a caller who is not admin, with more than 100 rows of their own next to
\* rows of another user, has listed the logs and received 100 rows
C38_Witness ==
    /\ admin_call.op = "get_upload_logs"
    /\ admin_call.code = "OK"
    /\ admin_call.caller = "u2"
    /\ ~admin_call.is_admin
    /\ Len(admin_call.logs[1]) = LogLimit
    /\ Cardinality({i \in DOMAIN upload_logs : upload_logs[i].user_id = "u2"}) > LogLimit
    /\ \E i \in DOMAIN upload_logs : upload_logs[i].user_id = "u1"

\* ---- C39
\* r can be obtained from s by leaving messages out, the order kept: the
\* common prefix is matched, then the next message of r is looked for in
\* the rest of s
RECURSIVE C39_IsSubsequence(_, _)
C39_IsSubsequence(r, s) ==
    LET m == IF Len(r) < Len(s) THEN Len(r) ELSE Len(s)
        D == {i \in 1..m : r[i] # s[i]}
        n == IF D = {} THEN m ELSE (CHOOSE x \in D : \A y \in D : x <= y) - 1
        J == {j \in (n + 1)..Len(s) : s[j] = r[n + 1]}
    IN  IF n = Len(r) THEN TRUE
        ELSE IF J = {} THEN FALSE
        ELSE LET j == CHOOSE x \in J : \A y \in J : x <= y
             IN  C39_IsSubsequence(SubSeq(r, n + 2, Len(r)), SubSeq(s, j + 1, Len(s)))

\* C39: no channel ever holds more than 100 undelivered messages, and for
\* every channel the messages its receiver has taken, followed by those it
\* can still take, are a subsequence, in sending order, of the messages sent
\* to the session id the channel was registered under: nothing is delivered
\* twice, out of order, or to the receiver of another session id.
C39_BoundedOrderedDelivery ==
    \A c \in DOMAIN channels :
        /\ Len(channels[c].queue) <= ChannelCapacity
        /\ C39_IsSubsequence(channels[c].received \o channels[c].queue,
                             progress_call.sent[channels[c].session_id])

\* two sessions are registered on two channels; a message sent to the one
\* was refused by its full channel, and the receiver of the other has taken
\* a message that was sent to it
C39_Witness ==
    \E c, d \in DOMAIN channels :
        /\ channels[c].session_id # channels[d].session_id
        /\ channels[d].received # <<>>
        /\ Len(channels[c].queue) = ChannelCapacity
        /\ Len(progress_call.sent[channels[c].session_id]) > ChannelCapacity

====
